---------------------------- MODULE Spec2Model ----------------------------
(***************************************************************************)
(* Consensus / overlay engine of the radiology demo UI.                    *)
(*                                                                         *)
(* Numbers.  The program works with IEEE doubles; the model works on exact *)
(* fixed-point grids:                                                      *)
(*   - catalog coordinates, radii and confidence scores are in hundredths  *)
(*     (0.30 is 30);                                                       *)
(*   - a region's intensity is in ten-thousandths (score * 0.85 for the    *)
(*     score 0.61 is 61 * 85 = 5185, i.e. 0.5185);                         *)
(*   - a consensus region's radius is in tenths of the radius unit         *)
(*     (radius * 0.8 is radius * 8).                                       *)
(* Strings the program inspects character by character (model identifiers, *)
(* pathology keys) are sequences of one-character strings; strings it only *)
(* passes along (labels, descriptions) are TLA+ strings.                   *)
(***************************************************************************)
EXTENDS Integers, Sequences, FiniteSets, TLC

(***************************************************************************)
(* JavaScript values that are not numbers or strings.                      *)
(***************************************************************************)
Null == [kind |-> "null"]

Undefined == [kind |-> "undefined"]

\* Object.prototype.constructor, the function Object: truthy, length 1,
\* no indexed elements and no fullName.
ObjectConstructor == [kind |-> "function", length |-> 1]

\* Object.prototype itself (the value of the inherited __proto__ accessor):
\* truthy, no length, no indexed elements.
ObjectPrototype == [kind |-> "object"]

(***************************************************************************)
(* Characters.                                                             *)
(***************************************************************************)
LowerChars ==
    <<"a", "b", "c", "d", "e", "f", "g", "h", "i", "j", "k", "l", "m",
      "n", "o", "p", "q", "r", "s", "t", "u", "v", "w", "x", "y", "z">>

UpperChars ==
    <<"A", "B", "C", "D", "E", "F", "G", "H", "I", "J", "K", "L", "M",
      "N", "O", "P", "Q", "R", "S", "T", "U", "V", "W", "X", "Y", "Z">>

\* String.prototype.toLowerCase on one character.
ToLowerChar(c) ==
    IF \E i \in 1..Len(UpperChars) : UpperChars[i] = c
    THEN LowerChars[CHOOSE i \in 1..Len(UpperChars) : UpperChars[i] = c]
    ELSE c

\* String.prototype.toLowerCase.
ToLowerCase(s) == [i \in 1..Len(s) |-> ToLowerChar(s[i])]

\* The character class [a-z_] under the regular expression's i flag.
IsKeyChar(c) ==
    \/ c = "_"
    \/ \E i \in 1..Len(LowerChars) : LowerChars[i] = ToLowerChar(c)

\* The literal part of /chestradiography_([a-z_]+)/i.
RegexLiteral ==
    <<"c", "h", "e", "s", "t", "r", "a", "d", "i", "o", "g", "r", "a", "p",
      "h", "y", "_">>

\* The expression matches at position i: the literal (case-insensitively)
\* followed by at least one key character.
MatchesAt(s, i) ==
    /\ i + Len(RegexLiteral) <= Len(s)
    /\ \A k \in 1..Len(RegexLiteral) : ToLowerChar(s[i + k - 1]) = RegexLiteral[k]
    /\ IsKeyChar(s[i + Len(RegexLiteral)])

\* modelId.match(/chestradiography_([a-z_]+)/i): Null when nothing matches,
\* else the capture group of the leftmost match, the longest run of key
\* characters after the literal.
RegexMatch(s) ==
    IF \E i \in 1..Len(s) : MatchesAt(s, i)
    THEN LET i == CHOOSE j \in 1..Len(s) :
                      MatchesAt(s, j) /\ \A h \in 1..(j - 1) : ~MatchesAt(s, h)
             from == i + Len(RegexLiteral)
             to == CHOOSE e \in from..Len(s) :
                      /\ \A k \in from..e : IsKeyChar(s[k])
                      /\ e = Len(s) \/ ~IsKeyChar(s[e + 1])
         IN [kind |-> "match", group1 |-> SubSeq(s, from, to)]
    ELSE Null

(***************************************************************************)
(* Static catalogs.                                                        *)
(***************************************************************************)
Keys ==
    [atelectasis |-> <<"a", "t", "e", "l", "e", "c", "t", "a", "s", "i", "s">>,
     pneumothorax |-> <<"p", "n", "e", "u", "m", "o", "t", "h", "o", "r", "a", "x">>,
     cardiomegaly |-> <<"c", "a", "r", "d", "i", "o", "m", "e", "g", "a", "l", "y">>,
     lung_opacity |-> <<"l", "u", "n", "g", "_", "o", "p", "a", "c", "i", "t", "y">>,
     pleural_effusion |-> <<"p", "l", "e", "u", "r", "a", "l", "_", "e", "f", "f", "u", "s", "i", "o", "n">>,
     consolidation |-> <<"c", "o", "n", "s", "o", "l", "i", "d", "a", "t", "i", "o", "n">>,
     infiltration |-> <<"i", "n", "f", "i", "l", "t", "r", "a", "t", "i", "o", "n">>,
     pleural_thickening |-> <<"p", "l", "e", "u", "r", "a", "l", "_", "t", "h", "i", "c", "k", "e", "n", "i", "n", "g">>,
     aortic_enlargement |-> <<"a", "o", "r", "t", "i", "c", "_", "e", "n", "l", "a", "r", "g", "e", "m", "e", "n", "t">>,
     calcification |-> <<"c", "a", "l", "c", "i", "f", "i", "c", "a", "t", "i", "o", "n">>,
     pulmonary_fibrosis |-> <<"p", "u", "l", "m", "o", "n", "a", "r", "y", "_", "f", "i", "b", "r", "o", "s", "i", "s">>,
     normal |-> <<"n", "o", "r", "m", "a", "l">>,
     ild |-> <<"i", "l", "d">>,
     constructor |-> <<"c", "o", "n", "s", "t", "r", "u", "c", "t", "o", "r">>,
     proto |-> <<"_", "_", "p", "r", "o", "t", "o", "_", "_">>]

PATHOLOGY_INFO ==
    (Keys.atelectasis :> [kind |-> "info",
         fullName |-> "Atelectasis",
         description |-> "Collapse or closure of lung tissue detected. This finding shows characteristic opacity consistent with atelectasis, often caused by airway obstruction, compression, or post-surgical changes.",
         secondaryFindings |-> <<"Adjacent tissue changes observed. May indicate volume loss or compensatory hyperinflation in neighboring lung segments.",
             "Mild mediastinal shift noted, consistent with volume loss in affected region.">>]) @@
    (Keys.pneumothorax :> [kind |-> "info",
         fullName |-> "Pneumothorax",
         description |-> "Air accumulation detected in pleural space. Visible absence of lung markings with potential visceral pleural line, indicating separation of lung from chest wall.",
         secondaryFindings |-> <<"Lung edge visualization suggests partial lung collapse.",
             "Possible tension signs: mediastinal shift or diaphragm depression may be present.">>]) @@
    (Keys.cardiomegaly :> [kind |-> "info",
         fullName |-> "Cardiomegaly",
         description |-> "Enlarged cardiac silhouette detected. Cardiothoracic ratio appears increased, suggesting possible cardiac chamber enlargement or pericardial effusion.",
         secondaryFindings |-> <<"Vascular congestion patterns may indicate associated heart failure.",
             "Pulmonary vascular redistribution suggestive of elevated pulmonary venous pressure.">>]) @@
    (Keys.lung_opacity :> [kind |-> "info",
         fullName |-> "Lung Opacity",
         description |-> "Abnormal opacity detected in lung parenchyma. This finding may represent consolidation, infiltrate, mass, or other pathological process requiring clinical correlation.",
         secondaryFindings |-> <<"Air bronchograms may be present, suggesting alveolar filling process.",
             "Pattern suggests possible infectious, inflammatory, or neoplastic etiology.">>]) @@
    (Keys.pleural_effusion :> [kind |-> "info",
         fullName |-> "Pleural Effusion",
         description |-> "Fluid accumulation detected in pleural space. Characteristic blunting of costophrenic angle or meniscus sign indicates pleural fluid collection.",
         secondaryFindings |-> <<"Compressive atelectasis may be present in adjacent lung tissue.",
             "Layering pattern suggests free-flowing pleural fluid.">>]) @@
    (Keys.consolidation :> [kind |-> "info",
         fullName |-> "Consolidation",
         description |-> "Dense airspace opacity detected consistent with alveolar consolidation. Pattern suggests filling of alveolar spaces with fluid, pus, blood, or cells.",
         secondaryFindings |-> <<"Air bronchograms visible within consolidated region.",
             "Lobar or segmental distribution pattern noted.">>]) @@
    (Keys.infiltration :> [kind |-> "info",
         fullName |-> "Infiltration",
         description |-> "Pulmonary infiltrate detected showing increased interstitial or alveolar markings. Pattern may represent infection, inflammation, or other pathological process.",
         secondaryFindings |-> <<"Bilateral distribution suggests diffuse process.",
             "Reticular or nodular pattern indicates interstitial involvement.">>]) @@
    (Keys.pleural_thickening :> [kind |-> "info",
         fullName |-> "Pleural Thickening",
         description |-> "Abnormal pleural thickening detected. Findings consistent with chronic pleural changes, possibly from prior inflammation, infection, or asbestos exposure.",
         secondaryFindings |-> <<"Localized pleural irregularity noted.",
             "May represent sequelae of prior empyema or hemothorax.">>]) @@
    (Keys.aortic_enlargement :> [kind |-> "info",
         fullName |-> "Aortic Enlargement",
         description |-> "Widened aortic contour detected. Finding suggests possible aortic aneurysm, atherosclerotic changes, or other vascular abnormality requiring further evaluation.",
         secondaryFindings |-> <<"Aortic calcification may be present.",
             "Mediastinal widening consistent with vascular enlargement.">>]) @@
    (Keys.calcification :> [kind |-> "info",
         fullName |-> "Calcification",
         description |-> "Calcified density detected within lung parenchyma or associated structures. May represent granuloma from prior infection, healed tuberculosis, or other benign processes.",
         secondaryFindings |-> <<"Multiple calcified nodules suggest prior granulomatous disease.",
             "Pattern consistent with old healed infection.">>]) @@
    (Keys.pulmonary_fibrosis :> [kind |-> "info",
         fullName |-> "Pulmonary Fibrosis",
         description |-> "Interstitial changes consistent with pulmonary fibrosis detected. Reticular pattern and volume loss suggest chronic scarring of lung tissue.",
         secondaryFindings |-> <<"Honeycombing pattern may indicate advanced fibrotic changes.",
             "Bilateral lower lobe predominance noted, typical of usual interstitial pneumonia pattern.">>]) @@
    (Keys.normal :> [kind |-> "info",
         fullName |-> "Normal",
         description |-> "No significant abnormalities detected. Lung fields appear clear with normal cardiac silhouette, mediastinal contours, and bony structures.",
         secondaryFindings |-> <<>>])

PATHOLOGY_REGIONS ==
    (Keys.atelectasis :> [kind |-> "array", items |-> <<
         [x |-> 30, y |-> 35, radius |-> 18, description |-> "Left upper/mid lung zone"],
         [x |-> 70, y |-> 35, radius |-> 18, description |-> "Right upper/mid lung zone"]>>]) @@
    (Keys.pneumothorax :> [kind |-> "array", items |-> <<
         [x |-> 25, y |-> 25, radius |-> 15, description |-> "Left apical region"],
         [x |-> 75, y |-> 25, radius |-> 15, description |-> "Right apical region"]>>]) @@
    (Keys.cardiomegaly :> [kind |-> "array", items |-> <<
         [x |-> 50, y |-> 60, radius |-> 28, description |-> "Cardiac silhouette enlargement"]>>]) @@
    (Keys.lung_opacity :> [kind |-> "array", items |-> <<
         [x |-> 35, y |-> 45, radius |-> 20, description |-> "Left lung field"],
         [x |-> 65, y |-> 45, radius |-> 20, description |-> "Right lung field"]>>]) @@
    (Keys.pleural_effusion :> [kind |-> "array", items |-> <<
         [x |-> 30, y |-> 72, radius |-> 18, description |-> "Left costophrenic angle blunting"],
         [x |-> 70, y |-> 72, radius |-> 18, description |-> "Right costophrenic angle blunting"]>>]) @@
    (Keys.consolidation :> [kind |-> "array", items |-> <<
         [x |-> 35, y |-> 52, radius |-> 18, description |-> "Left lower lobe"],
         [x |-> 65, y |-> 52, radius |-> 18, description |-> "Right lower lobe"]>>]) @@
    (Keys.infiltration :> [kind |-> "array", items |-> <<
         [x |-> 35, y |-> 42, radius |-> 22, description |-> "Left perihilar/central region"],
         [x |-> 65, y |-> 42, radius |-> 22, description |-> "Right perihilar/central region"]>>]) @@
    (Keys.pleural_thickening :> [kind |-> "array", items |-> <<
         [x |-> 18, y |-> 50, radius |-> 12, description |-> "Left lateral pleural margin"],
         [x |-> 82, y |-> 50, radius |-> 12, description |-> "Right lateral pleural margin"]>>]) @@
    (Keys.aortic_enlargement :> [kind |-> "array", items |-> <<
         [x |-> 45, y |-> 28, radius |-> 16, description |-> "Aortic arch/knob widening"]>>]) @@
    (Keys.calcification :> [kind |-> "array", items |-> <<
         [x |-> 50, y |-> 55, radius |-> 18, description |-> "Cardiac/vascular calcification"]>>]) @@
    (Keys.pulmonary_fibrosis :> [kind |-> "array", items |-> <<
         [x |-> 35, y |-> 58, radius |-> 20, description |-> "Left lower zone reticular pattern"],
         [x |-> 65, y |-> 58, radius |-> 20, description |-> "Right lower zone reticular pattern"]>>]) @@
    (Keys.ild :> [kind |-> "array", items |-> <<
         [x |-> 35, y |-> 48, radius |-> 22, description |-> "Left mid/lower zone interstitial pattern"],
         [x |-> 65, y |-> 48, radius |-> 22, description |-> "Right mid/lower zone interstitial pattern"]>>]) @@
    (Keys.normal :> [kind |-> "array", items |-> <<>>])

\* A property read obj[key] on an object literal: an own property, else the
\* property inherited from Object.prototype, else undefined.  Of the
\* inherited names only "constructor" and "__proto__" consist of key
\* characters in lower case, so only they can be a pathology key.
PropertyRead(obj, key) ==
    IF key \in DOMAIN obj THEN obj[key]
    ELSE IF key = Keys.constructor THEN ObjectConstructor
    ELSE IF key = Keys.proto THEN ObjectPrototype
    ELSE Undefined

\* JavaScript truthiness of the values a catalog read can give.
Truthy(v) == v # Undefined /\ v # Null

\* The minimum confidence for any region and the confidence above which
\* the secondary region is added, in hundredths.
MinConfidence == 30

HighConfidence == 60

\* The factor of the secondary region's intensity, in hundredths.
SecondaryFactor == 85

\* aiResponse.results?.response?.score || 0
ResponseScore(aiResponse) ==
    IF aiResponse.hasScore THEN aiResponse.score ELSE 0

\* aiResponse.model_id || aiResponse.results?.response?.model || ""
ResponseModelId(aiResponse) ==
    IF aiResponse.model_id # <<>> THEN aiResponse.model_id ELSE aiResponse.model

\* The pathology key extracted from the model identifier.
PathologyKey(modelId) ==
    LET pathologyMatch == RegexMatch(modelId)
    IN IF pathologyMatch # Null THEN ToLowerCase(pathologyMatch.group1)
       ELSE Keys.lung_opacity

\* PATHOLOGY_INFO[pathologyKey] || PATHOLOGY_INFO["lung_opacity"]
PathologyInfoFor(pathologyKey) ==
    LET found == PropertyRead(PATHOLOGY_INFO, pathologyKey)
    IN IF Truthy(found) THEN found ELSE PATHOLOGY_INFO[Keys.lung_opacity]

\* The same read with an empty array taken for a missing entry.
AnatomicalRegionsFor_EmptyIsFalsy(pathologyKey) ==
    LET found == PropertyRead(PATHOLOGY_REGIONS, pathologyKey)
    IN IF Truthy(found) /\ ~(found.kind = "array" /\ Len(found.items) = 0)
       THEN found
       ELSE PATHOLOGY_REGIONS[Keys.lung_opacity]

\* PATHOLOGY_REGIONS[pathologyKey] || PATHOLOGY_REGIONS["lung_opacity"]
AnatomicalRegionsFor(pathologyKey) ==
    LET found == PropertyRead(PATHOLOGY_REGIONS, pathologyKey)
    IN IF Truthy(found) THEN found ELSE PATHOLOGY_REGIONS[Keys.lung_opacity]

\* pathologyInfo.fullName: undefined on a value that is no catalog entry.
FullNameOf(pathologyInfo) ==
    IF pathologyInfo.kind = "info" THEN pathologyInfo.fullName ELSE "undefined"

\* pathologyInfo.secondaryFindings?.[0] is a non-empty string.
HasSecondaryFinding(pathologyInfo) ==
    /\ pathologyInfo.kind = "info"
    /\ Len(pathologyInfo.secondaryFindings) > 0
    /\ pathologyInfo.secondaryFindings[1] # ""

PrimaryRegionOf(primaryRegion, score, pathologyInfo) ==
    [x |-> primaryRegion.x,
     y |-> primaryRegion.y,
     radius |-> primaryRegion.radius,
     intensity |-> score * 100,
     label |-> FullNameOf(pathologyInfo),
     explanation |-> pathologyInfo.description]

\* The secondary region with the intensity of the primary one.
SecondaryRegionOf_FullIntensity(secondaryRegion, score, pathologyInfo) ==
    [x |-> secondaryRegion.x,
     y |-> secondaryRegion.y,
     radius |-> secondaryRegion.radius,
     intensity |-> score * 100,
     label |-> IF HasSecondaryFinding(pathologyInfo)
               THEN "Secondary Finding"
               ELSE FullNameOf(pathologyInfo),
     explanation |-> IF HasSecondaryFinding(pathologyInfo)
                     THEN pathologyInfo.secondaryFindings[1]
                     ELSE secondaryRegion.description]

\* The secondary region always labelled as the primary one.
SecondaryRegionOf_PrimaryLabel(secondaryRegion, score, pathologyInfo) ==
    [x |-> secondaryRegion.x,
     y |-> secondaryRegion.y,
     radius |-> secondaryRegion.radius,
     intensity |-> score * SecondaryFactor,
     label |-> FullNameOf(pathologyInfo),
     explanation |-> IF HasSecondaryFinding(pathologyInfo)
                     THEN pathologyInfo.secondaryFindings[1]
                     ELSE secondaryRegion.description]

\* secondaryRegion of generateRegionsFromAIResponse, as pushed.
SecondaryRegionOf(secondaryRegion, score, pathologyInfo) ==
    [x |-> secondaryRegion.x,
     y |-> secondaryRegion.y,
     radius |-> secondaryRegion.radius,
     intensity |-> score * SecondaryFactor,
     label |-> IF HasSecondaryFinding(pathologyInfo)
               THEN "Secondary Finding"
               ELSE FullNameOf(pathologyInfo),
     explanation |-> IF HasSecondaryFinding(pathologyInfo)
                     THEN pathologyInfo.secondaryFindings[1]
                     ELSE secondaryRegion.description]

\* The outcome of a call: the returned array, or the TypeError thrown by
\* reading a property of undefined.
Returned(regions) == [threw |-> FALSE, regions |-> regions]

ThrewTypeError == [threw |-> TRUE, regions |-> <<>>]

\* score < 0.3: no region is generated.
BelowMinConfidence(score) == score < MinConfidence

\* score > 0.6 && anatomicalRegions.length > 1: the secondary region is added.
EmitsSecondary(score, items) == score > HighConfidence /\ Len(items) > 1

\* generateRegionsFromAIResponse(aiResponse)
generateRegionsFromAIResponse(aiResponse) ==
    LET score == ResponseScore(aiResponse)
        pathologyKey == PathologyKey(ResponseModelId(aiResponse))
        pathologyInfo == PathologyInfoFor(pathologyKey)
        anatomicalRegions == AnatomicalRegionsFor(pathologyKey)
    IN IF BelowMinConfidence(score) THEN Returned(<<>>)
       ELSE IF anatomicalRegions.kind = "array" /\ Len(anatomicalRegions.items) = 0
            \* anatomicalRegions.length === 0
            THEN Returned(<<>>)
       ELSE IF anatomicalRegions.kind # "array"
            \* the length is 1 or undefined, anatomicalRegions[0] is undefined
            \* and primaryRegion.x throws
            THEN ThrewTypeError
       ELSE LET items == anatomicalRegions.items
                primary == PrimaryRegionOf(items[1], score, pathologyInfo)
            IN IF EmitsSecondary(score, items)
               THEN Returned(<<primary,
                               SecondaryRegionOf(items[2], score, pathologyInfo)>>)
               ELSE Returned(<<primary>>)

(***************************************************************************)
(* Inference responses the synthesizer is applied to.                      *)
(***************************************************************************)
ModelIdPrefix ==  \* "mc_chestradiography_"
    <<"m", "c", "_", "c", "h", "e", "s", "t", "r", "a", "d", "i", "o", "g",
      "r", "a", "p", "h", "y", "_">>

ModelIdSuffix ==  \* ":v1.20250828"
    <<":", "v", "1", ".", "2", "0", "2", "5", "0", "8", "2", "8">>

\* `mc_chestradiography_${selectedModel}:v1.20250828`
ModelIdOf(selectedModel) == ModelIdPrefix \o selectedModel \o ModelIdSuffix

\* The keys of AVAILABLE_MODELS other than "auto".
AvailableModelKeys ==
    {Keys.atelectasis, Keys.pneumothorax, Keys.cardiomegaly, Keys.lung_opacity,
     Keys.pleural_effusion, Keys.consolidation, Keys.infiltration,
     Keys.pleural_thickening, Keys.aortic_enlargement, Keys.calcification,
     Keys.pulmonary_fibrosis, Keys.ild, Keys.normal}

\* Identifiers the service may answer with besides those of the request:
\* another pathology, other letter case, no pattern, a pattern without key,
\* a key with a version suffix, and keys that name inherited properties.
OtherModelIds ==
    {ModelIdOf(<<"f", "r", "a", "c", "t", "u", "r", "e">>),
     <<"M", "C", "_", "C", "h", "e", "s", "t", "R", "a", "d", "i", "o", "g", "r",
       "a", "p", "h", "y", "_", "P", "N", "E", "U", "M", "O", "T", "H", "O", "R",
       "A", "X", ":", "v", "1">>,
     <<"h", "o", "p", "p", "r", "_", "c", "x", "r", ":", "v", "2">>,
     ModelIdPrefix \o <<":", "v", "1">>,
     ModelIdPrefix \o Keys.lung_opacity \o <<"_", "v", "2">>,
     ModelIdOf(Keys.constructor),
     ModelIdOf(Keys.proto)}

ModelIds == {ModelIdOf(k) : k \in AvailableModelKeys} \cup OtherModelIds

\* Confidence scores, in hundredths of [0, 1].
Scores == 0..100

\* The fields of a response the synthesizer reads.  An absent or empty
\* model_id is <<>>; hasScore is FALSE when results.response.score is absent.
AiResponses ==
    [model_id : ModelIds \cup {<<>>},
     model : {<<>>, ModelIdOf(Keys.pneumothorax), ModelIdOf(Keys.normal)},
     hasScore : BOOLEAN,
     score : Scores]

(***************************************************************************)
(* Geometry shared by the consensus detector and the hover pick.           *)
(***************************************************************************)
\* Math.sqrt(d2) < radius over the reals, for an integer d2 >= 0: false for
\* a radius that is not positive, else the comparison of the squares.
SqrtLessThan_Inclusive(d2, radius) == radius > 0 /\ d2 <= radius * radius

SqrtLessThan(d2, radius) == radius > 0 /\ d2 < radius * radius

\* dx = px - region.x; dy = py - region.y;
\* Math.sqrt(dx * dx + dy * dy) < region.radius
WithinRegion(px, py, region) ==
    LET dx == px - region.x
        dy == py - region.y
    IN SqrtLessThan(dx * dx + dy * dy, region.radius)

\* The entry detectConsensus pushes for a matching pair.
ConsensusOf(annotation, region) ==
    [x |-> annotation.x,
     y |-> annotation.y,
     radius |-> region.radius * 8,
     clinicianAnnotation |-> annotation,
     aiRegion |-> region]

\* aiRegions.forEach(...) for one annotation, from region j on.
RECURSIVE DetectRegions(_, _, _)
DetectRegions(annotation, aiRegions, j) ==
    IF j > Len(aiRegions) THEN <<>>
    ELSE (IF WithinRegion(annotation.x, annotation.y, aiRegions[j])
          THEN <<ConsensusOf(annotation, aiRegions[j])>>
          ELSE <<>>)
         \o DetectRegions(annotation, aiRegions, j + 1)

\* clinicianAnnotations.forEach(...), from annotation i on.
RECURSIVE DetectAnnotations(_, _, _)
DetectAnnotations(clinicianAnnotations, aiRegions, i) ==
    IF i > Len(clinicianAnnotations) THEN <<>>
    ELSE DetectRegions(clinicianAnnotations[i], aiRegions, 1)
         \o DetectAnnotations(clinicianAnnotations, aiRegions, i + 1)

\* The array `detected` that detectConsensus builds.
Detected(clinicianAnnotations, aiRegions) ==
    DetectAnnotations(clinicianAnnotations, aiRegions, 1)

\* for (const region of regions) { if (distance < region.radius) { found; break } }
RECURSIVE FoundRegionFrom(_, _, _, _)
FoundRegionFrom(x, y, regions, k) ==
    IF k > Len(regions) THEN Null
    ELSE IF WithinRegion(x, y, regions[k]) THEN regions[k]
    ELSE FoundRegionFrom(x, y, regions, k + 1)

\* The loop of the same shape that keeps the last region found (no break).
RECURSIVE FoundRegionLast(_, _, _, _)
FoundRegionLast(x, y, regions, k) ==
    IF k > Len(regions) THEN Null
    ELSE LET later == FoundRegionLast(x, y, regions, k + 1)
         IN IF later # Null THEN later
            ELSE IF WithinRegion(x, y, regions[k]) THEN regions[k]
            ELSE Null

FoundRegion_Last(x, y, regions) == FoundRegionLast(x, y, regions, 1)

\* foundRegion of handleCanvasMouseMove for the cursor at (x, y).
FoundRegion(x, y, regions) == FoundRegionFrom(x, y, regions, 1)

\* a === b on two values that are Null or region objects: objects are
\* identified by their ref.
SameRegion(a, b) ==
    \/ a = Null /\ b = Null
    \/ a # Null /\ b # Null /\ a.ref = b.ref

(***************************************************************************)
(* Inputs of the geometry: positions in hundredths of the image side.      *)
(***************************************************************************)
\* At most this many annotations and AI regions are held at a time.
MaxAnnotations == 2

MaxRegions == 2

\* The wall clock (Date.now()) runs from 0 to MaxNow.
MaxNow == 2

\* At most this many File objects (and their object URLs) are created.
MaxFiles == 2

\* A viewer is mounted at most MaxMounts times and its image-load effect
\* runs at most MaxRuns times.
MaxMounts == 2

MaxRuns == 3

\* At most this many fetches of the sample image are in flight.
MaxFetches == 1

\* Runs of the consensus effect followed for one set of props.
MaxEffectRuns == 3

Coords == {0, 50, 100}

GridPoints == [x : Coords, y : Coords]

ClinicianColor == "rgba(59, 130, 246, 1)"

\* The annotation handleCanvasClick creates for a click at point p.
NewAnnotation(id, p) ==
    [id |-> id, type |-> "point", x |-> p.x, y |-> p.y, comment |-> "",
     color |-> ClinicianColor]

\* Sequences over S of length at most n.
SeqsUpTo(S, n) == UNION {[1..k -> S] : k \in 0..n}

\* Annotation lists a parent may hand to a viewer: distinct ids.
AnnotationLists ==
    {[k \in 1..Len(ps) |-> NewAnnotation(k, ps[k])] :
        ps \in SeqsUpTo(GridPoints, MaxAnnotations)}

\* AI regions a parent may hand to a viewer, as value shapes.
RegionShapes(xs, ys, radii, intensities) ==
    [x : xs, y : ys, radius : radii, intensity : intensities,
     label : {"Finding"}, explanation : {"Explanation"}]

\* The objects of an array literal: element k is the object with ref k.
WithRefs(shapes) ==
    [k \in 1..Len(shapes) |->
        [x |-> shapes[k].x, y |-> shapes[k].y, radius |-> shapes[k].radius,
         intensity |-> shapes[k].intensity, label |-> shapes[k].label,
         explanation |-> shapes[k].explanation, ref |-> k]]

RegionLists(shapes) == {WithRefs(rs) : rs \in SeqsUpTo(shapes, MaxRegions)}

VARIABLES
    synthIn,              \* the response handed to the synthesizer
    synthOut,             \* Null, or the outcome of the call
    annotations,          \* Demo: annotations
    heatmapRegions,       \* Demo: heatmapRegions
    aiResults,            \* Demo: aiResults
    hoveredRegion,        \* Demo: hoveredRegion
    consensusRegions,     \* Demo: consensusRegions
    ovHoveredRegion,      \* DicomViewerWithOverlay: hoveredRegion
    ovCanvas,             \* DicomViewerWithOverlay: shapes on the overlay canvas
    ovTimer,              \* DicomViewerWithOverlay: the draw timer, with its closure
    pointerAt,            \* where the mouse pointer is
    cvConsensusRegions,   \* CombinedDicomViewer: consensusRegions
    cvEffectPending,      \* CombinedDicomViewer: the consensus effect is due
    cvRuns,               \* CombinedDicomViewer: effect runs since the props changed
    cvDefaults,           \* CombinedDicomViewer: the array props are omitted
    cvCanvas,             \* CombinedDicomViewer: shapes on the overlay canvas
    cvDrawPending,        \* CombinedDicomViewer: the draw timer is running
    drawingMode,          \* AnnotatableDicomViewer: drawingMode
    showCommentDialog,    \* AnnotatableDicomViewer: showCommentDialog
    pendingAnnotation,    \* AnnotatableDicomViewer: pendingAnnotation
    commentText,          \* AnnotatableDicomViewer: commentText
    avCanvas,             \* AnnotatableDicomViewer: markers on the overlay canvas
    avDrawPending,        \* AnnotatableDicomViewer: the draw timer is running
    now,                  \* Date.now()
    surface,              \* the host element's bounding rectangle, in pixels
    viewMode,             \* Demo: viewMode
    showConsensus,        \* Demo: showConsensus
    dicomFile,            \* Demo: dicomFile
    dicomImageId,         \* Demo: dicomImageId
    isAnalyzing,          \* Demo: isAnalyzing
    request,              \* Demo: the analysis request in flight
    notification,         \* the last toast shown
    files,                \* File objects (and object URLs) created so far
    sampleFetches,        \* Demo: fetches of the sample image in flight
    vwMounted,            \* viewer: the component is mounted
    vwElement,            \* viewer: the host element of this mount
    vwImageId,            \* viewer: the imageId prop
    vwCleanup,            \* viewer: the last effect run returned its cleanup
    vwLoading,            \* viewer: loading
    vwError,              \* viewer: error
    vwImageLoaded,        \* viewer: imageLoaded
    vwPending,            \* viewer: loadImage promises not yet settled
    vwRuns,               \* viewer: runs of the image-load effect so far
    enabledElements,      \* cornerstone: enabled-element entries per element
    displayedImage        \* cornerstone: the image displayed in each element

synthVars == <<synthIn, synthOut>>

demoVars == <<annotations, heatmapRegions, aiResults, hoveredRegion, consensusRegions>>

overlayVars == <<ovHoveredRegion, pointerAt, ovCanvas, ovTimer>>

combinedVars ==
    <<cvConsensusRegions, cvEffectPending, cvRuns, cvDefaults, cvCanvas, cvDrawPending>>

annotVars ==
    <<drawingMode, showCommentDialog, pendingAnnotation, commentText, avCanvas,
      avDrawPending, now, surface>>

sessionVars ==
    <<viewMode, showConsensus, dicomFile, dicomImageId, isAnalyzing, request,
      notification, files, sampleFetches>>

viewerVars ==
    <<vwMounted, vwElement, vwImageId, vwCleanup, vwLoading, vwError,
      vwImageLoaded, vwPending, vwRuns, enabledElements, displayedImage>>

vars ==
    <<synthVars, demoVars, overlayVars, combinedVars, annotVars, sessionVars,
      viewerVars>>

(***************************************************************************)
(* Initial values of the components' state (the useState defaults).        *)
(***************************************************************************)
SynthIdle == synthIn = Null /\ synthOut = Null

DemoInit ==
    /\ annotations = <<>>
    /\ heatmapRegions = <<>>
    /\ aiResults = Null
    /\ hoveredRegion = Null
    /\ consensusRegions = <<>>

\* Where the mouse pointer is: outside every hover target, on the overlay
\* canvas at a normalized position, or on the findings-list entry index.
Elsewhere == [on |-> "elsewhere", x |-> 0, y |-> 0, index |-> 0]

OnCanvas(x, y) == [on |-> "canvas", x |-> x, y |-> y, index |-> 0]

OnFinding(i) == [on |-> "finding", x |-> 0, y |-> 0, index |-> i]

OverlayInit ==
    /\ ovHoveredRegion = Null /\ pointerAt = Elsewhere
    /\ ovCanvas = <<>> /\ ovTimer = Null

CombinedInit ==
    /\ cvConsensusRegions = <<>> /\ cvEffectPending = FALSE
    /\ cvRuns = 0 /\ cvDefaults = FALSE
    /\ cvCanvas = <<>> /\ cvDrawPending = FALSE

AnnotInit ==
    /\ drawingMode = FALSE
    /\ showCommentDialog = FALSE
    /\ pendingAnnotation = Null
    /\ commentText = ""
    /\ avCanvas = <<>>
    /\ avDrawPending = FALSE
    /\ now = 0
    /\ surface = [width |-> 400, height |-> 400]

\* No toast has been shown yet.
NoNotification == [kind |-> "none", title |-> "", description |-> ""]

SessionInit ==
    /\ viewMode = "sideBySide"
    /\ showConsensus = FALSE
    /\ dicomFile = Null
    /\ dicomImageId = Null
    /\ isAnalyzing = FALSE
    /\ request = Null
    /\ notification = NoNotification
    /\ files = 0
    /\ sampleFetches = 0

\* imageId is undefined.
NoImageId == 0

\* error is null.
NoError == ""

\* A viewer before its first mount: the useState defaults, no element
\* enabled and nothing displayed.
ViewerInit ==
    /\ vwMounted = FALSE
    /\ vwElement = 0
    /\ vwImageId = NoImageId
    /\ vwCleanup = FALSE
    /\ vwLoading = TRUE
    /\ vwError = NoError
    /\ vwImageLoaded = FALSE
    /\ vwPending = {}
    /\ vwRuns = 0
    /\ enabledElements = [e \in 1..MaxMounts |-> 0]
    /\ displayedImage = [e \in 1..MaxMounts |-> NoImageId]

(***************************************************************************)
(* The synthesizer applied to one response.                                *)
(***************************************************************************)
InitSynth ==
    /\ synthIn \in AiResponses
    /\ synthOut = Null
    /\ DemoInit /\ OverlayInit /\ CombinedInit /\ AnnotInit
    /\ SessionInit /\ ViewerInit

Synthesize ==
    /\ synthIn # Null
    /\ synthOut = Null
    /\ synthOut' = generateRegionsFromAIResponse(synthIn)
    /\ UNCHANGED <<synthIn, demoVars, overlayVars, combinedVars, annotVars>>
    /\ UNCHANGED <<sessionVars, viewerVars>>

NextSynth == Synthesize

SpecSynth == InitSynth /\ [][NextSynth]_vars

(***************************************************************************)
(* CombinedDicomViewer: consensus detection.                               *)
(***************************************************************************)
\* Whether the consensus effect is due again after the render that its
\* setConsensusRegions(detected) causes.  detectConsensus is memoized on
\* [clinicianAnnotations, aiRegions, onConsensusDetected]: arrays passed by
\* the parent keep their identity across that render, while the defaults
\* `= []` of omitted props are new arrays in every render.
DueAfterRender(defaults) == defaults

\* useEffect(() => { detectConsensus(); }, [detectConsensus]): the effect
\* of the mount and of every change of clinicianAnnotations or aiRegions.
\* detectConsensus sets the viewer's consensusRegions and hands the same
\* array to onConsensusDetected, the Demo's setConsensusRegions.
ConsensusEffect ==
    /\ cvEffectPending
    /\ cvRuns < MaxEffectRuns
    /\ LET detected == Detected(annotations, heatmapRegions)
       IN /\ cvConsensusRegions' = detected
          /\ consensusRegions' = detected
    /\ cvRuns' = cvRuns + 1
    /\ cvEffectPending' = DueAfterRender(cvDefaults)
    /\ cvDrawPending' = vwImageLoaded
    /\ UNCHANGED <<cvDefaults, cvCanvas>>
    /\ UNCHANGED <<annotations, heatmapRegions, aiResults, hoveredRegion>>
    /\ UNCHANGED <<synthVars, overlayVars, annotVars>>
    /\ UNCHANGED <<sessionVars, viewerVars>>

\* The viewer just mounted with clinicianAnnotations = annotations and
\* aiRegions = heatmapRegions.
InitDetect ==
    /\ annotations \in AnnotationLists
    /\ heatmapRegions \in RegionLists(RegionShapes(Coords, {0, 50}, {50, 100}, {5000}))
    /\ aiResults = Null
    /\ hoveredRegion = Null
    /\ consensusRegions = <<>>
    /\ cvConsensusRegions = <<>>
    /\ cvEffectPending = TRUE
    /\ cvRuns = 0 /\ cvDefaults = FALSE
    /\ cvCanvas = <<>> /\ cvDrawPending = FALSE
    /\ SynthIdle /\ OverlayInit /\ AnnotInit
    /\ SessionInit /\ ViewerInit

NextDetect == ConsensusEffect

SpecDetect == InitDetect /\ [][NextDetect]_vars

(***************************************************************************)
(* DicomViewerWithOverlay and the Demo's findings list: hovering.          *)
(***************************************************************************)
\* The overlay viewer is rendered: dicomFile && aiResults.
OverlayMounted == aiResults # Null

\* The findings list is rendered: aiResults && heatmapRegions.length > 0.
FindingsListShown == aiResults # Null /\ Len(heatmapRegions) > 0

\* handleCanvasMouseMove with the cursor at the normalized position (x, y);
\* the pointer comes from outside every hover target or moves on the canvas.
\* onRegionHover is the Demo's setHoveredRegion.
CanvasMouseMove(x, y) ==
    /\ OverlayMounted
    /\ pointerAt.on \in {"elsewhere", "canvas"}
    /\ pointerAt' = OnCanvas(x, y)
    /\ LET foundRegion == FoundRegion(x, y, heatmapRegions)
       IN IF ~SameRegion(foundRegion, ovHoveredRegion)
          THEN /\ ovHoveredRegion' = foundRegion
               /\ hoveredRegion' = foundRegion
          ELSE UNCHANGED <<ovHoveredRegion, hoveredRegion>>
    /\ UNCHANGED <<annotations, heatmapRegions, aiResults, consensusRegions>>
    /\ UNCHANGED <<ovCanvas, ovTimer, synthVars, combinedVars, annotVars>>
    /\ UNCHANGED <<sessionVars, viewerVars>>

\* handleCanvasMouseLeave
CanvasMouseLeave ==
    /\ OverlayMounted
    /\ pointerAt.on = "canvas"
    /\ pointerAt' = Elsewhere
    /\ ovHoveredRegion' = Null
    /\ hoveredRegion' = Null
    /\ UNCHANGED <<annotations, heatmapRegions, aiResults, consensusRegions>>
    /\ UNCHANGED <<ovCanvas, ovTimer, synthVars, combinedVars, annotVars>>
    /\ UNCHANGED <<sessionVars, viewerVars>>

\* onMouseEnter of the findings-list entry of heatmapRegions[i]:
\* setHoveredRegion(region) of the Demo.
FindingMouseEnter(i) ==
    /\ FindingsListShown
    /\ i \in 1..Len(heatmapRegions)
    /\ pointerAt.on = "elsewhere"
    /\ pointerAt' = OnFinding(i)
    /\ hoveredRegion' = heatmapRegions[i]
    /\ UNCHANGED <<annotations, heatmapRegions, aiResults, consensusRegions>>
    /\ UNCHANGED <<ovHoveredRegion, ovCanvas, ovTimer, synthVars, combinedVars, annotVars>>
    /\ UNCHANGED <<sessionVars, viewerVars>>

\* onMouseLeave of a findings-list entry: setHoveredRegion(null) of the Demo.
FindingMouseLeave ==
    /\ FindingsListShown
    /\ pointerAt.on = "finding"
    /\ pointerAt' = Elsewhere
    /\ hoveredRegion' = Null
    /\ UNCHANGED <<annotations, heatmapRegions, aiResults, consensusRegions>>
    /\ UNCHANGED <<ovHoveredRegion, ovCanvas, ovTimer, synthVars, combinedVars, annotVars>>
    /\ UNCHANGED <<sessionVars, viewerVars>>

\* The findings-list entry of heatmapRegions[i] is drawn highlighted:
\* hoveredRegion === region in the Demo's render.
FindingHighlighted(i) == SameRegion(hoveredRegion, heatmapRegions[i])

\* drawHeatmap treats heatmapRegions[i] as hovered: hoveredRegion === region
\* on the viewer's own state.
CanvasRegionHovered(i) == SameRegion(ovHoveredRegion, heatmapRegions[i])

\* A successful analysis is shown; the regions range over the lists a
\* parent may pass, so that overlapping regions occur in either order.
ShownResponse ==
    [model_id |-> ModelIdOf(Keys.pneumothorax), model |-> <<>>,
     hasScore |-> TRUE, score |-> 85]

InitHover ==
    /\ annotations = <<>>
    /\ heatmapRegions \in
           RegionLists(RegionShapes({50, 100}, {50}, {50, 100}, {4000, 9000}))
    /\ aiResults = ShownResponse
    /\ hoveredRegion = Null
    /\ consensusRegions = <<>>
    /\ SynthIdle /\ OverlayInit /\ CombinedInit /\ AnnotInit
    /\ SessionInit /\ ViewerInit

NextHover ==
    \/ \E p \in GridPoints : CanvasMouseMove(p.x, p.y)
    \/ CanvasMouseLeave
    \/ \E i \in 1..MaxRegions : FindingMouseEnter(i)
    \/ FindingMouseLeave

SpecHover == InitHover /\ [][NextHover]_vars

(***************************************************************************)
(* AnnotatableDicomViewer: adding, deleting and drawing annotations.       *)
(* The viewer's annotations are the Demo's (annotations prop), and         *)
(* onAnnotationsChange is the Demo's setAnnotations.                       *)
(***************************************************************************)
\* Where the user clicks and what the user types.
ClickPoints == [x : {0, 50}, y : {0, 50}]

CommentTexts == {"", "note"}

\* JavaScript truthiness of a number (never NaN here).
TruthyNumber(n) == n # 0

\* drawSingleAnnotation: nothing is drawn when !annotation.x || !annotation.y;
\* else the marker at (x * canvasWidth, y * canvasHeight), in hundredths of a
\* pixel, with its number and, for a non-empty comment, the comment badge.
DrawSingleAnnotation(annotation, canvasWidth, canvasHeight, annotationNumber) ==
    IF ~TruthyNumber(annotation.x) \/ ~TruthyNumber(annotation.y) THEN <<>>
    ELSE <<[cx |-> annotation.x * canvasWidth,
            cy |-> annotation.y * canvasHeight,
            number |-> annotationNumber,
            badge |-> annotation.comment # ""]>>

\* annotations.forEach((annotation, index) => drawSingleAnnotation(..., index + 1))
RECURSIVE DrawFrom(_, _, _, _)
DrawFrom(anns, canvasWidth, canvasHeight, k) ==
    IF k > Len(anns) THEN <<>>
    ELSE DrawSingleAnnotation(anns[k], canvasWidth, canvasHeight, k)
         \o DrawFrom(anns, canvasWidth, canvasHeight, k + 1)

\* drawAnnotations: the canvas takes the element's size, is cleared, and
\* the markers are drawn in array order.
DrawAnnotations(anns, rect) == DrawFrom(anns, rect.width, rect.height, 1)

\* onClick of the "Add Annotation" button (shown once the image is loaded;
\* the modal comment dialog covers it while open).
ToggleDrawingMode ==
    /\ ~showCommentDialog
    /\ drawingMode' = ~drawingMode
    /\ UNCHANGED <<showCommentDialog, pendingAnnotation, commentText, avCanvas,
                   avDrawPending, now, surface>>
    /\ UNCHANGED <<synthVars, demoVars, overlayVars, combinedVars>>
    /\ UNCHANGED <<sessionVars, viewerVars>>

\* The click handler without the test of drawingMode.
CanvasClick_AnyMode(p) ==
    /\ ~showCommentDialog
    /\ Len(annotations) < MaxAnnotations
    /\ pendingAnnotation' = NewAnnotation(now, p)
    /\ showCommentDialog' = TRUE
    /\ UNCHANGED <<drawingMode, commentText, avCanvas, avDrawPending, now, surface>>
    /\ UNCHANGED <<synthVars, demoVars, overlayVars, combinedVars>>
    /\ UNCHANGED <<sessionVars, viewerVars>>

\* handleCanvasClick for a click at the normalized position p; the id is
\* Date.now().toString(), kept as the number it prints.
CanvasClick(p) ==
    /\ ~showCommentDialog
    /\ Len(annotations) < MaxAnnotations
    /\ IF drawingMode
       THEN /\ pendingAnnotation' = NewAnnotation(now, p)
            /\ showCommentDialog' = TRUE
       ELSE UNCHANGED <<pendingAnnotation, showCommentDialog>>
    /\ UNCHANGED <<drawingMode, commentText, avCanvas, avDrawPending, now, surface>>
    /\ UNCHANGED <<synthVars, demoVars, overlayVars, combinedVars>>
    /\ UNCHANGED <<sessionVars, viewerVars>>

\* onChange of the comment text area.
TypeComment(text) ==
    /\ showCommentDialog
    /\ commentText' = text
    /\ UNCHANGED <<drawingMode, showCommentDialog, pendingAnnotation, avCanvas,
                   avDrawPending, now, surface>>
    /\ UNCHANGED <<synthVars, demoVars, overlayVars, combinedVars>>
    /\ UNCHANGED <<sessionVars, viewerVars>>

\* handleSaveComment; the new annotations array re-runs the draw effect,
\* which restarts the draw timer.
SaveComment ==
    /\ showCommentDialog
    /\ IF pendingAnnotation # Null
       THEN /\ annotations' =
                  Append(annotations, [pendingAnnotation EXCEPT !.comment = commentText])
            /\ avDrawPending' = TRUE
       ELSE UNCHANGED <<annotations, avDrawPending>>
    /\ showCommentDialog' = FALSE
    /\ commentText' = ""
    /\ pendingAnnotation' = Null
    /\ drawingMode' = FALSE
    /\ UNCHANGED <<avCanvas, now, surface>>
    /\ UNCHANGED <<heatmapRegions, aiResults, hoveredRegion, consensusRegions>>
    /\ UNCHANGED <<synthVars, overlayVars, combinedVars>>
    /\ UNCHANGED <<sessionVars, viewerVars>>

\* onClick of the dialog's Cancel button.
CancelComment ==
    /\ showCommentDialog
    /\ showCommentDialog' = FALSE
    /\ commentText' = ""
    /\ pendingAnnotation' = Null
    /\ UNCHANGED <<drawingMode, avCanvas, avDrawPending, now, surface>>
    /\ UNCHANGED <<synthVars, demoVars, overlayVars, combinedVars>>
    /\ UNCHANGED <<sessionVars, viewerVars>>

\* onOpenChange(false) of the dialog (Escape, the close button, a click
\* outside): setShowCommentDialog(false) and nothing else.
DismissDialog ==
    /\ showCommentDialog
    /\ showCommentDialog' = FALSE
    /\ UNCHANGED <<drawingMode, pendingAnnotation, commentText, avCanvas,
                   avDrawPending, now, surface>>
    /\ UNCHANGED <<synthVars, demoVars, overlayVars, combinedVars>>
    /\ UNCHANGED <<sessionVars, viewerVars>>

\* annotations.filter(a => a.id !== id)
WithoutId(anns, id) == SelectSeq(anns, LAMBDA a : a.id # id)

\* handleDeleteAnnotation(id), from the delete button of a list entry.
DeleteAnnotation(id) ==
    /\ ~showCommentDialog
    /\ \E k \in 1..Len(annotations) : annotations[k].id = id
    /\ annotations' = WithoutId(annotations, id)
    /\ avDrawPending' = TRUE
    /\ UNCHANGED <<drawingMode, showCommentDialog, pendingAnnotation, commentText,
                   avCanvas, now, surface>>
    /\ UNCHANGED <<heatmapRegions, aiResults, hoveredRegion, consensusRegions>>
    /\ UNCHANGED <<synthVars, overlayVars, combinedVars>>
    /\ UNCHANGED <<sessionVars, viewerVars>>

\* The draw timer (50 ms after the last change) fires: drawAnnotations().
DrawTimer ==
    /\ avDrawPending
    /\ avCanvas' = DrawAnnotations(annotations, surface)
    /\ avDrawPending' = FALSE
    /\ UNCHANGED <<drawingMode, showCommentDialog, pendingAnnotation, commentText,
                   now, surface>>
    /\ UNCHANGED <<synthVars, demoVars, overlayVars, combinedVars>>
    /\ UNCHANGED <<sessionVars, viewerVars>>

\* A millisecond passes.
Tick ==
    /\ now < MaxNow
    /\ now' = now + 1
    /\ UNCHANGED <<drawingMode, showCommentDialog, pendingAnnotation, commentText,
                   avCanvas, avDrawPending, surface>>
    /\ UNCHANGED <<synthVars, demoVars, overlayVars, combinedVars>>
    /\ UNCHANGED <<sessionVars, viewerVars>>

\* The image has just been displayed (imageLoaded), which starts the draw
\* timer; the Demo holds no annotations yet.
InitAnnot ==
    /\ DemoInit
    /\ drawingMode = FALSE
    /\ showCommentDialog = FALSE
    /\ pendingAnnotation = Null
    /\ commentText = ""
    /\ avCanvas = <<>>
    /\ avDrawPending = TRUE
    /\ now = 0
    /\ surface \in {[width |-> 400, height |-> 400], [width |-> 640, height |-> 400]}
    /\ SynthIdle /\ OverlayInit /\ CombinedInit
    /\ SessionInit /\ ViewerInit

NextAnnot ==
    \/ ToggleDrawingMode
    \/ \E p \in ClickPoints : CanvasClick(p)
    \/ \E text \in CommentTexts : TypeComment(text)
    \/ SaveComment
    \/ CancelComment
    \/ DismissDialog
    \/ \E id \in 0..MaxNow : DeleteAnnotation(id)
    \/ DrawTimer
    \/ Tick

SpecAnnot == InitAnnot /\ [][NextAnnot]_vars

(***************************************************************************)
(* The image-load effect of a viewer.  CombinedDicomViewer,                *)
(* DicomViewerWithOverlay and AnnotatableDicomViewer have the same effect  *)
(* on [imageId]: enable the host element, start the load, and return the   *)
(* cleanup that disables the element.                                      *)
(***************************************************************************)
InitError == "Failed to initialize viewer"

LoadError == "Failed to load DICOM image"

\* The image references a parent may pass.
ViewerImageIds == 1..MaxFiles

\* The entries of an element left unchanged (a cleanup that releases nothing).
Disabled_Leak(elements, element) == elements

\* cornerstone.disable(element): the element's entry is removed.
Disabled(elements, element) ==
    [elements EXCEPT ![element] = IF @ > 0 THEN @ - 1 ELSE 0]

\* cornerstone.enable(element): an entry is added for the element.
Enabled(elements, element) == [elements EXCEPT ![element] = @ + 1]

\* The component state and the cornerstone state after the cleanup of the
\* previous effect run, if that run returned one.
AfterCleanup ==
    [elements |-> IF vwCleanup THEN Disabled(enabledElements, vwElement)
                  ELSE enabledElements,
     displayed |-> IF vwCleanup
                   THEN [displayedImage EXCEPT ![vwElement] = NoImageId]
                   ELSE displayedImage]

\* One run of the effect on the given element with the given component
\* state (loading, error, imageLoaded) and cornerstone entries.
ImageLoadEffect(element, imageId, enableOk, state, elements) ==
    IF ~enableOk
    THEN \* catch: setError("Failed to initialize viewer"); setLoading(false); return
         /\ vwError' = InitError
         /\ vwLoading' = FALSE
         /\ vwImageLoaded' = state.imageLoaded
         /\ vwCleanup' = FALSE
         /\ enabledElements' = elements
         /\ vwPending' = vwPending
    ELSE /\ enabledElements' = Enabled(elements, element)
         /\ vwCleanup' = TRUE
         /\ IF imageId # NoImageId
            THEN /\ vwLoading' = TRUE
                 /\ vwError' = NoError
                 /\ vwImageLoaded' = FALSE
                 /\ vwPending' = vwPending \cup
                        {[element |-> element, imageId |-> imageId, run |-> vwRuns + 1]}
            ELSE /\ vwLoading' = FALSE
                 /\ vwError' = state.error
                 /\ vwImageLoaded' = state.imageLoaded
                 /\ vwPending' = vwPending

\* The component mounts on a new host element and the effect runs.
Mount(imageId, enableOk) ==
    /\ ~vwMounted
    /\ vwElement < MaxMounts
    /\ vwRuns < MaxRuns
    /\ vwMounted' = TRUE
    /\ vwElement' = vwElement + 1
    /\ vwImageId' = imageId
    /\ vwRuns' = vwRuns + 1
    /\ displayedImage' = displayedImage
    /\ ImageLoadEffect(vwElement + 1, imageId, enableOk,
                       [loading |-> TRUE, error |-> NoError, imageLoaded |-> FALSE],
                       enabledElements)
    /\ UNCHANGED <<synthVars, demoVars, overlayVars, combinedVars, annotVars, sessionVars>>

\* The imageId prop changes: the cleanup of the last run, then the effect.
ImageIdChange(imageId, enableOk) ==
    /\ vwMounted
    /\ imageId # vwImageId
    /\ vwRuns < MaxRuns
    /\ vwImageId' = imageId
    /\ vwRuns' = vwRuns + 1
    /\ displayedImage' = AfterCleanup.displayed
    /\ ImageLoadEffect(vwElement, imageId, enableOk,
                       [loading |-> vwLoading, error |-> vwError,
                        imageLoaded |-> vwImageLoaded],
                       AfterCleanup.elements)
    /\ UNCHANGED <<vwMounted, vwElement>>
    /\ UNCHANGED <<synthVars, demoVars, overlayVars, combinedVars, annotVars, sessionVars>>

\* A loadImage promise settles.  Resolved: displayImage(element, image),
\* which throws on an element that is not enabled, then setLoading(false),
\* setImageLoaded(true).  Rejected, or displayImage threw: setError(...),
\* setLoading(false).  State setters of an unmounted component do nothing.
LoadSettle(load, resolved) ==
    /\ load \in vwPending
    /\ vwPending' = vwPending \ {load}
    /\ LET displayOk == resolved /\ enabledElements[load.element] > 0
           alive == vwMounted /\ vwElement = load.element
       IN /\ displayedImage' = IF displayOk
                               THEN [displayedImage EXCEPT ![load.element] = load.imageId]
                               ELSE displayedImage
          /\ IF ~alive THEN UNCHANGED <<vwLoading, vwError, vwImageLoaded>>
             ELSE IF displayOk
                  THEN /\ vwLoading' = FALSE
                       /\ vwImageLoaded' = TRUE
                       /\ vwError' = vwError
                  ELSE /\ vwError' = LoadError
                       /\ vwLoading' = FALSE
                       /\ vwImageLoaded' = vwImageLoaded
    /\ UNCHANGED <<vwMounted, vwElement, vwImageId, vwCleanup, vwRuns, enabledElements>>
    /\ UNCHANGED <<synthVars, demoVars, overlayVars, combinedVars, annotVars, sessionVars>>

\* The component unmounts: the cleanup of the last run.
Unmount ==
    /\ vwMounted
    /\ vwMounted' = FALSE
    /\ vwCleanup' = FALSE
    /\ enabledElements' = AfterCleanup.elements
    /\ displayedImage' = AfterCleanup.displayed
    /\ UNCHANGED <<vwElement, vwImageId, vwLoading, vwError, vwImageLoaded,
                   vwPending, vwRuns>>
    /\ UNCHANGED <<synthVars, demoVars, overlayVars, combinedVars, annotVars, sessionVars>>

InitViewer ==
    /\ ViewerInit
    /\ SynthIdle /\ DemoInit /\ OverlayInit /\ CombinedInit /\ AnnotInit /\ SessionInit

NextViewer ==
    \/ \E imageId \in ViewerImageIds \cup {NoImageId}, enableOk \in BOOLEAN :
           Mount(imageId, enableOk)
    \/ \E imageId \in ViewerImageIds \cup {NoImageId}, enableOk \in BOOLEAN :
           ImageIdChange(imageId, enableOk)
    \/ \E load \in vwPending, resolved \in BOOLEAN : LoadSettle(load, resolved)
    \/ Unmount

SpecViewer == InitViewer /\ [][NextViewer]_vars

(***************************************************************************)
(* The Demo: image selection, analysis, view modes, and the viewers it     *)
(* mounts.  Tab contents are rendered only for the active tab.             *)
(***************************************************************************)
\* toast.success / toast.error / toast.info
Toast(kind, title, description) ==
    [kind |-> kind, title |-> title, description |-> description]

\* <AnnotatableDicomViewer> is rendered: side-by-side tab, a file is held.
AnnotatorMounted(mode, file) == mode = "sideBySide" /\ file # Null

\* <CombinedDicomViewer> is rendered: combined tab, dicomImageId is set.
CombinedMounted(mode, imageId) == mode = "combined" /\ imageId # Null

\* The annotator's own state after a Demo render with the given tab and
\* file: kept while it stays mounted, the useState defaults otherwise.
AnnotatorAfter(mode, file) ==
    /\ IF AnnotatorMounted(viewMode, dicomFile) /\ AnnotatorMounted(mode, file)
       THEN UNCHANGED <<drawingMode, showCommentDialog, pendingAnnotation,
                        commentText, avCanvas, avDrawPending>>
       ELSE /\ drawingMode' = FALSE
            /\ showCommentDialog' = FALSE
            /\ pendingAnnotation' = Null
            /\ commentText' = ""
            /\ avCanvas' = <<>>
            /\ avDrawPending' = FALSE
    /\ UNCHANGED <<now, surface>>

\* The combined viewer after a Demo render: unmounted, freshly mounted (its
\* consensus effect is due), or kept, with the effect due again when the
\* clinicianAnnotations or aiRegions props are new arrays.
CombinedAfter(mode, imageId, propsChanged) ==
    IF ~CombinedMounted(mode, imageId)
    THEN /\ cvConsensusRegions' = <<>> /\ cvEffectPending' = FALSE
         /\ cvRuns' = 0 /\ cvCanvas' = <<>> /\ cvDrawPending' = FALSE
         /\ UNCHANGED cvDefaults
    ELSE IF ~CombinedMounted(viewMode, dicomImageId)
         THEN /\ cvConsensusRegions' = <<>> /\ cvEffectPending' = TRUE
              /\ cvRuns' = 0 /\ cvCanvas' = <<>> /\ cvDrawPending' = FALSE
              /\ UNCHANGED cvDefaults
    ELSE IF propsChanged
         THEN /\ cvEffectPending' = TRUE /\ cvRuns' = 0
              /\ cvDrawPending' = vwImageLoaded
              /\ UNCHANGED <<cvConsensusRegions, cvDefaults, cvCanvas>>
    ELSE UNCHANGED combinedVars

\* The n-th File object created, and `wadouri:${URL.createObjectURL(file)}`.
FileOf(n) == [kind |-> "file", file |-> n]

ImageIdOf(n) == [kind |-> "wadouri", url |-> n]

\* The state changes shared by handleFileUpload and handleLoadSample: a new
\* File and object URL, and the previous analysis data cleared.
ImageLoaded(description) ==
    /\ files' = files + 1
    /\ dicomFile' = FileOf(files + 1)
    /\ dicomImageId' = ImageIdOf(files + 1)
    /\ aiResults' = Null
    /\ heatmapRegions' = <<>>
    /\ annotations' = <<>>
    /\ consensusRegions' = <<>>
    /\ notification' = Toast("success", description, "")
    /\ AnnotatorAfter(viewMode, FileOf(files + 1))
    /\ CombinedAfter(viewMode, ImageIdOf(files + 1), TRUE)
    /\ UNCHANGED <<viewMode, showConsensus, isAnalyzing, request, hoveredRegion>>
    /\ UNCHANGED <<synthVars, overlayVars, viewerVars>>

\* handleFileUpload for a chosen file whose name ends in .dcm or not.
FileUpload(isDicom) ==
    /\ viewMode = "sideBySide" /\ dicomFile = Null
    /\ files < MaxFiles
    /\ IF isDicom
       THEN ImageLoaded("DICOM file loaded") /\ UNCHANGED sampleFetches
       ELSE /\ notification' = Toast("error", "Invalid file type",
                                     "Please upload a DICOM (.dcm) file")
            /\ UNCHANGED <<viewMode, showConsensus, dicomFile, dicomImageId,
                           isAnalyzing, request, files, sampleFetches>>
            /\ UNCHANGED <<synthVars, demoVars, overlayVars, combinedVars,
                           annotVars, viewerVars>>

\* handleLoadSample up to its await: the fetch of /sample.dcm starts.
LoadSampleClick ==
    /\ viewMode = "sideBySide" /\ dicomFile = Null
    /\ sampleFetches < MaxFetches
    /\ sampleFetches' = sampleFetches + 1
    /\ UNCHANGED <<viewMode, showConsensus, dicomFile, dicomImageId, isAnalyzing,
                   request, notification, files>>
    /\ UNCHANGED <<synthVars, demoVars, overlayVars, combinedVars, annotVars, viewerVars>>

\* handleLoadSample after the await: the fetch settled.
LoadSampleSettle(fetched) ==
    /\ sampleFetches > 0
    /\ sampleFetches' = sampleFetches - 1
    /\ files < MaxFiles
    /\ IF fetched
       THEN ImageLoaded("Sample DICOM loaded")
       ELSE /\ notification' = Toast("error", "Failed to load sample image",
                                     "Please try uploading your own DICOM file")
            /\ UNCHANGED <<viewMode, showConsensus, dicomFile, dicomImageId,
                           isAnalyzing, request, files>>
            /\ UNCHANGED <<synthVars, demoVars, overlayVars, combinedVars,
                           annotVars, viewerVars>>

\* handleClearFile
ClearFile ==
    /\ viewMode = "sideBySide" /\ dicomFile # Null
    /\ ~showCommentDialog
    /\ dicomFile' = Null
    /\ dicomImageId' = Null
    /\ aiResults' = Null
    /\ heatmapRegions' = <<>>
    /\ annotations' = <<>>
    /\ consensusRegions' = <<>>
    /\ AnnotatorAfter(viewMode, Null)
    /\ CombinedAfter(viewMode, Null, TRUE)
    /\ UNCHANGED <<viewMode, showConsensus, isAnalyzing, request, notification,
                   files, sampleFetches, hoveredRegion>>
    /\ UNCHANGED <<synthVars, overlayVars, viewerVars>>

\* What the service may answer: responses with one region containing the
\* point (0.5, 0.5), with no region, and with an identifier that names an
\* inherited property.
DemoResponses ==
    {[model_id |-> ModelIdOf(Keys.cardiomegaly), model |-> <<>>,
      hasScore |-> TRUE, score |-> 85],
     [model_id |-> ModelIdOf(Keys.normal), model |-> <<>>,
      hasScore |-> TRUE, score |-> 90],
     [model_id |-> ModelIdOf(Keys.constructor), model |-> <<>>,
      hasScore |-> TRUE, score |-> 50]}

ServiceErrors == {"", "Model unavailable"}

\* How the request can end: fetch or response.json() rejects, the service
\* answers success: false with an error text, or success: true with a
\* response for the study it was sent.
Outcomes(dicom) ==
    {[kind |-> "threw"]}
    \cup {[kind |-> "failure", error |-> e] : e \in ServiceErrors}
    \cup {[kind |-> "success",
           data |-> [model_id |-> r.model_id, model |-> r.model,
                     hasScore |-> r.hasScore, score |-> r.score,
                     study_id |-> dicom]] : r \in DemoResponses}

\* handleAnalyzeWithAI up to its first await (the fetch is sent).  The
\* button is in the AI panel of the side-by-side tab, shown while no result
\* is held, and disabled while isAnalyzing.
AnalyzeStart ==
    /\ viewMode = "sideBySide" /\ dicomFile # Null /\ aiResults = Null
    /\ ~isAnalyzing /\ ~showCommentDialog
    /\ isAnalyzing' = TRUE
    /\ aiResults' = Null
    /\ heatmapRegions' = <<>>
    /\ consensusRegions' = <<>>
    /\ notification' = Toast("info", "Analyzing with AI models...", "")
    /\ request' = [dicom |-> dicomFile]
    /\ UNCHANGED <<viewMode, showConsensus, dicomFile, dicomImageId, files,
                   sampleFetches, annotations, hoveredRegion>>
    /\ UNCHANGED <<synthVars, overlayVars, combinedVars, annotVars, viewerVars>>

\* The catch block of handleAnalyzeWithAI.
ConnectError ==
    Toast("error", "Failed to connect to AI service",
          "Please ensure the API server is running")

\* isAnalyzing left as it is when the handler ends.
AfterFinally_Keep(analyzing) == analyzing

\* The finally block of handleAnalyzeWithAI: setIsAnalyzing(false).
AfterFinally(analyzing) == FALSE

\* handleAnalyzeWithAI after its awaits, for one outcome of the request.
AnalyzeSettle(outcome) ==
    /\ request # Null
    /\ request' = Null
    /\ isAnalyzing' = AfterFinally(isAnalyzing)
    /\ IF outcome.kind = "success"
       THEN LET generated == generateRegionsFromAIResponse(outcome.data)
            IN /\ aiResults' = outcome.data
               /\ IF generated.threw
                  THEN /\ notification' = ConnectError
                       /\ UNCHANGED <<heatmapRegions, combinedVars>>
                  ELSE /\ heatmapRegions' = WithRefs(generated.regions)
                       /\ notification' = Toast("success", "AI Analysis Complete", "")
                       /\ CombinedAfter(viewMode, dicomImageId, TRUE)
       ELSE /\ notification' = IF outcome.kind = "failure"
                               THEN Toast("error", "Analysis failed",
                                          IF outcome.error # "" THEN outcome.error
                                          ELSE "Unknown error")
                               ELSE ConnectError
            /\ UNCHANGED <<aiResults, heatmapRegions, combinedVars>>
    /\ UNCHANGED <<viewMode, showConsensus, dicomFile, dicomImageId, files,
                   sampleFetches, annotations, hoveredRegion, consensusRegions>>
    /\ UNCHANGED <<synthVars, overlayVars, annotVars, viewerVars>>

\* onClick of "New Analysis": setAiResults(null).
NewAnalysis ==
    /\ viewMode = "sideBySide" /\ dicomFile # Null /\ aiResults # Null
    /\ ~showCommentDialog
    /\ aiResults' = Null
    /\ UNCHANGED <<annotations, heatmapRegions, hoveredRegion, consensusRegions>>
    /\ UNCHANGED <<synthVars, overlayVars, combinedVars, annotVars, sessionVars, viewerVars>>

\* The "Consensus Summary" box is rendered.
SummaryShown(show, consensus) == show /\ Len(consensus) > 0

\* The number in "AI detected N additional finding(s)"; the line is
\* rendered only when heatmapRegions.length > consensusRegions.length, and
\* no line reports no additional finding.
AdditionalFindings(regions, consensus) ==
    IF Len(regions) > Len(consensus) THEN Len(regions) - Len(consensus) ELSE 0

\* The number in "N clinician annotation(s) not matched by AI"; the line is
\* rendered only when annotations.length > consensusRegions.length.
UnmatchedAnnotations(anns, consensus) ==
    IF Len(anns) > Len(consensus) THEN Len(anns) - Len(consensus) ELSE 0

\* onValueChange of the tabs: setViewMode(mode).
SetViewMode(mode) ==
    /\ mode # viewMode
    /\ ~showCommentDialog
    /\ viewMode' = mode
    /\ AnnotatorAfter(mode, dicomFile)
    /\ CombinedAfter(mode, dicomImageId, FALSE)
    /\ UNCHANGED <<showConsensus, dicomFile, dicomImageId, isAnalyzing, request,
                   notification, files, sampleFetches>>
    /\ UNCHANGED <<synthVars, demoVars, overlayVars, viewerVars>>

\* toggleConsensus; the new showConsensus prop gives the combined viewer a
\* new drawOverlays, which restarts its draw timer once the image is shown.
ToggleConsensus ==
    /\ viewMode = "combined"
    /\ showConsensus' = ~showConsensus
    /\ notification' = IF ~showConsensus
                       THEN Toast("info", "Consensus highlighting enabled",
                                  "Mutual agreement regions are now highlighted")
                       ELSE notification
    /\ cvDrawPending' = IF CombinedMounted(viewMode, dicomImageId)
                        THEN vwImageLoaded ELSE cvDrawPending
    /\ UNCHANGED <<cvConsensusRegions, cvEffectPending, cvRuns, cvDefaults, cvCanvas>>
    /\ UNCHANGED <<viewMode, dicomFile, dicomImageId, isAnalyzing, request, files,
                   sampleFetches>>
    /\ UNCHANGED <<synthVars, demoVars, overlayVars, annotVars, viewerVars>>

\* Where the clinician clicks in the Demo: inside the cardiac region.
DemoClickPoints == {[x |-> 50, y |-> 50]}

InitDemo ==
    /\ DemoInit /\ SessionInit
    /\ SynthIdle /\ OverlayInit /\ CombinedInit /\ AnnotInit /\ ViewerInit

NextDemo ==
    \/ \E isDicom \in BOOLEAN : FileUpload(isDicom)
    \/ LoadSampleClick
    \/ \E fetched \in BOOLEAN : LoadSampleSettle(fetched)
    \/ ClearFile
    \/ AnalyzeStart
    \/ request # Null /\ \E outcome \in Outcomes(request.dicom) : AnalyzeSettle(outcome)
    \/ NewAnalysis
    \/ \E mode \in {"sideBySide", "combined"} : SetViewMode(mode)
    \/ ToggleConsensus
    \/ CombinedMounted(viewMode, dicomImageId) /\ ConsensusEffect
    \/ AnnotatorMounted(viewMode, dicomFile) /\ ToggleDrawingMode
    \/ \E p \in DemoClickPoints : AnnotatorMounted(viewMode, dicomFile) /\ CanvasClick(p)
    \/ AnnotatorMounted(viewMode, dicomFile) /\ SaveComment
    \/ AnnotatorMounted(viewMode, dicomFile) /\ CancelComment
    \/ \E id \in 0..MaxNow : AnnotatorMounted(viewMode, dicomFile) /\ DeleteAnnotation(id)
    \/ Tick

SpecDemo == InitDemo /\ [][NextDemo]_vars

\* The network request of an analysis resolves or rejects: the handler's
\* continuation is eventually run.
RequestSettles ==
    request # Null /\ \E outcome \in Outcomes(request.dicom) : AnalyzeSettle(outcome)

SpecDemoLive == SpecDemo /\ WF_vars(RequestSettles)

(***************************************************************************)
(* The Demo's combined tab with its consensus summary: the combined viewer *)
(* has just been mounted on an analysed and annotated image.               *)
(***************************************************************************)
\* Responses of the analysis that was run: two regions, one region, and
\* one region at a score below the secondary threshold.
SummaryResponses ==
    {[model_id |-> ModelIdOf(Keys.atelectasis), model |-> <<>>,
      hasScore |-> TRUE, score |-> 85],
     [model_id |-> ModelIdOf(Keys.cardiomegaly), model |-> <<>>,
      hasScore |-> TRUE, score |-> 85],
     [model_id |-> ModelIdOf(Keys.pneumothorax), model |-> <<>>,
      hasScore |-> TRUE, score |-> 50]}

\* Where the clinician clicked: the left upper lung zone, the right upper
\* lung zone, and a point in no region template.
SummaryPoints == {[x |-> 30, y |-> 35], [x |-> 70, y |-> 35], [x |-> 50, y |-> 90]}

InitSummary ==
    /\ \E r \in SummaryResponses :
           /\ aiResults = [model_id |-> r.model_id, model |-> r.model,
                           hasScore |-> r.hasScore, score |-> r.score,
                           study_id |-> FileOf(1)]
           /\ heatmapRegions = WithRefs(generateRegionsFromAIResponse(r).regions)
    /\ annotations \in {[k \in 1..Len(ps) |-> NewAnnotation(k, ps[k])] :
                           ps \in SeqsUpTo(SummaryPoints, MaxAnnotations)}
    /\ hoveredRegion = Null
    /\ consensusRegions = <<>>
    /\ cvConsensusRegions = <<>>
    /\ cvEffectPending = TRUE
    /\ cvRuns = 0 /\ cvDefaults = FALSE
    /\ cvCanvas = <<>> /\ cvDrawPending = FALSE
    /\ viewMode = "combined"
    /\ showConsensus = FALSE
    /\ dicomFile = FileOf(1)
    /\ dicomImageId = ImageIdOf(1)
    /\ isAnalyzing = FALSE
    /\ request = Null
    /\ notification = NoNotification
    /\ files = 1
    /\ sampleFetches = 0
    /\ SynthIdle /\ OverlayInit /\ AnnotInit /\ ViewerInit

NextSummary ==
    \/ ConsensusEffect
    \/ ToggleConsensus

SpecSummary == InitSummary /\ [][NextSummary]_vars

(***************************************************************************)
(* Drawing.  A canvas is the sequence of shapes painted on it since it was *)
(* last cleared, in painting order; positions and radii are in hundredths  *)
(* of a pixel (x * width for x in hundredths).                             *)
(***************************************************************************)
\* A canvas that keeps what was painted on it.
Cleared_Keep(canvas) == canvas

\* canvas.width = rect.width; ctx.clearRect(0, 0, canvas.width, canvas.height)
Cleared(canvas) == <<>>

Min(a, b) == IF a < b THEN a ELSE b

\* drawOverlays, first loop: one gradient disc with border per AI region;
\* alpha is region.intensity || 0.3.
AiLayer(aiRegions, rect) ==
    [k \in 1..Len(aiRegions) |->
        [layer |-> "ai",
         cx |-> aiRegions[k].x * rect.width,
         cy |-> aiRegions[k].y * rect.height,
         r |-> aiRegions[k].radius * rect.width,
         alpha |-> IF aiRegions[k].intensity # 0 THEN aiRegions[k].intensity ELSE 3000,
         number |-> 0,
         badge |-> FALSE]]

\* The halos painted whatever showConsensus is.
HaloLayer_Always(show, consensus, rect) ==
    [k \in 1..Len(consensus) |->
        [layer |-> "consensus",
         cx |-> consensus[k].x * rect.width,
         cy |-> consensus[k].y * rect.height,
         r |-> consensus[k].radius * rect.width,
         alpha |-> 3000,
         number |-> 0,
         badge |-> FALSE]]

\* drawOverlays, second loop: if (showConsensus), one green halo per
\* consensus region, at fixed opacity; its radius is in thousandths of a pixel.
HaloLayer(show, consensus, rect) ==
    IF show
    THEN [k \in 1..Len(consensus) |->
             [layer |-> "consensus",
              cx |-> consensus[k].x * rect.width,
              cy |-> consensus[k].y * rect.height,
              r |-> consensus[k].radius * rect.width,
              alpha |-> 3000,
              number |-> 0,
              badge |-> FALSE]]
    ELSE <<>>

\* drawOverlays, third loop: one numbered marker of radius 12 px per
\* annotation, with the comment badge for a non-empty comment.
MarkerLayer(clinicianAnnotations, rect) ==
    [k \in 1..Len(clinicianAnnotations) |->
        [layer |-> "marker",
         cx |-> clinicianAnnotations[k].x * rect.width,
         cy |-> clinicianAnnotations[k].y * rect.height,
         r |-> 1200,
         alpha |-> 10000,
         number |-> k,
         badge |-> clinicianAnnotations[k].comment # ""]]

\* What drawOverlays paints after clearing.
DrawOverlays(aiRegions, consensus, clinicianAnnotations, show, rect) ==
    AiLayer(aiRegions, rect)
    \o HaloLayer(show, consensus, rect)
    \o MarkerLayer(clinicianAnnotations, rect)

\* drawHeatmap, first loop: one radial gradient per region, of radius
\* region.radius * Math.min(width, height).
GradientLayer(regions, rect) ==
    [k \in 1..Len(regions) |->
        [layer |-> "gradient",
         cx |-> regions[k].x * rect.width,
         cy |-> regions[k].y * rect.height,
         r |-> regions[k].radius * Min(rect.width, rect.height),
         hovered |-> FALSE,
         label |-> ""]]

\* drawHeatmap, second loop: one dashed box per region, of side
\* radius * min(width, height) * 1.5 (here in thousandths of a pixel), drawn
\* stronger when hoveredRegion === region, with the region's label.
BoxLayer(regions, hovered, rect) ==
    [k \in 1..Len(regions) |->
        [layer |-> "box",
         cx |-> regions[k].x * rect.width,
         cy |-> regions[k].y * rect.height,
         r |-> regions[k].radius * Min(rect.width, rect.height) * 15,
         hovered |-> SameRegion(hovered, regions[k]),
         label |-> regions[k].label]]

\* What drawHeatmap paints after clearing.
DrawHeatmap(regions, hovered, rect) ==
    GradientLayer(regions, rect) \o BoxLayer(regions, hovered, rect)

\* The closure of the timer the draw effect of DicomViewerWithOverlay
\* starts: drawHeatmap of the render in which the effect ran.
HeatmapClosure(regions, hovered) == [regions |-> regions, hoveredRegion |-> hovered]

(***************************************************************************)
(* A page that shows one study in a CombinedDicomViewer and in a           *)
(* DicomViewerWithOverlay, both with their image displayed: the parent     *)
(* changes the props, the pointer moves over the overlay, the effects and  *)
(* the draw timers run.                                                    *)
(***************************************************************************)
\* The image-load state of a viewer whose image has been displayed.
ViewerReady ==
    /\ vwMounted = TRUE
    /\ vwElement = 1
    /\ vwImageId = 1
    /\ vwCleanup = TRUE
    /\ vwLoading = FALSE
    /\ vwError = NoError
    /\ vwImageLoaded = TRUE
    /\ vwPending = {}
    /\ vwRuns = 1
    /\ enabledElements = [e \in 1..MaxMounts |-> IF e = 1 THEN 1 ELSE 0]
    /\ displayedImage = [e \in 1..MaxMounts |-> IF e = 1 THEN 1 ELSE NoImageId]

\* The element's bounding rectangle: square, and 16:9 (aspect-video).
RenderSurfaces == {[width |-> 400, height |-> 400], [width |-> 640, height |-> 360]}

\* Annotation positions, in the order the clinician adds them: the centre
\* of the left upper lung zone template, and a point 0.25 below it.
RenderClicks == <<[x |-> 30, y |-> 35], [x |-> 30, y |-> 60]>>

\* Where the pointer goes on the overlay canvas.
RenderPoints == {RenderClicks[k] : k \in 1..Len(RenderClicks)}

\* The annotations after none, one or both clicks were saved.
RenderAnnotationLists ==
    {[k \in 1..n |-> NewAnnotation(k, RenderClicks[k])] : n \in 0..Len(RenderClicks)}

\* The region lists of no finding and of atelectasis at 0.85 (two regions).
RenderRegionLists ==
    {<<>>,
     WithRefs(generateRegionsFromAIResponse(
         [model_id |-> ModelIdOf(Keys.atelectasis), model |-> <<>>,
          hasScore |-> TRUE, score |-> 85]).regions)}

\* The parent renders the combined viewer and the overlay viewer with new
\* clinicianAnnotations and aiRegions / heatmapRegions arrays.  The combined
\* viewer gets a new detectConsensus and a new drawOverlays: its consensus
\* effect is due and its draw timer restarts.  The draw effect of the
\* overlay viewer depends on [showHeatmap, heatmapIntensity, imageLoaded]
\* only and does not run.
PropsChange(anns, regions) ==
    /\ ~cvDefaults
    /\ <<anns, regions>> # <<annotations, heatmapRegions>>
    /\ annotations' = anns
    /\ heatmapRegions' = regions
    /\ cvEffectPending' = TRUE
    /\ cvRuns' = 0
    /\ cvDrawPending' = vwImageLoaded
    /\ UNCHANGED <<cvConsensusRegions, cvDefaults, cvCanvas>>
    /\ UNCHANGED <<aiResults, hoveredRegion, consensusRegions>>
    /\ UNCHANGED <<synthVars, overlayVars, annotVars, sessionVars, viewerVars>>

\* The draw timer of the combined viewer fires: drawOverlays().
DrawOverlaysTimer ==
    /\ cvDrawPending
    /\ cvCanvas' = Cleared(cvCanvas)
                   \o DrawOverlays(IF cvDefaults THEN <<>> ELSE heatmapRegions,
                                   cvConsensusRegions,
                                   IF cvDefaults THEN <<>> ELSE annotations,
                                   showConsensus, surface)
    /\ cvDrawPending' = FALSE
    /\ UNCHANGED <<cvConsensusRegions, cvEffectPending, cvRuns, cvDefaults>>
    /\ UNCHANGED <<synthVars, demoVars, overlayVars, annotVars, sessionVars, viewerVars>>

\* The draw timer of the overlay viewer fires: drawHeatmap() of its closure.
DrawHeatmapTimer ==
    /\ ovTimer # Null
    /\ ovCanvas' = Cleared(ovCanvas)
                   \o DrawHeatmap(ovTimer.regions, ovTimer.hoveredRegion, surface)
    /\ ovTimer' = Null
    /\ UNCHANGED <<ovHoveredRegion, pointerAt>>
    /\ UNCHANGED <<synthVars, demoVars, combinedVars, annotVars, sessionVars, viewerVars>>

\* Both images have just been displayed (imageLoaded), which starts both
\* draw timers; the combined viewer's consensus effect is due.  Either the
\* parent passes its arrays, or it omits them and both are the defaults.
InitRender ==
    /\ cvDefaults \in BOOLEAN
    /\ IF cvDefaults
       THEN annotations = <<>> /\ heatmapRegions = <<>>
       ELSE /\ annotations \in RenderAnnotationLists
            /\ heatmapRegions \in RenderRegionLists
    /\ aiResults = ShownResponse
    /\ hoveredRegion = Null
    /\ consensusRegions = <<>>
    /\ cvConsensusRegions = <<>>
    /\ cvEffectPending = TRUE
    /\ cvRuns = 0
    /\ cvCanvas = <<>>
    /\ cvDrawPending = TRUE
    /\ ovHoveredRegion = Null
    /\ pointerAt = Elsewhere
    /\ ovCanvas = <<>>
    /\ ovTimer = HeatmapClosure(heatmapRegions, Null)
    /\ drawingMode = FALSE
    /\ showCommentDialog = FALSE
    /\ pendingAnnotation = Null
    /\ commentText = ""
    /\ avCanvas = <<>>
    /\ avDrawPending = FALSE
    /\ now = 0
    /\ surface \in RenderSurfaces
    /\ viewMode = "combined"
    /\ showConsensus = FALSE
    /\ dicomFile = FileOf(1)
    /\ dicomImageId = ImageIdOf(1)
    /\ isAnalyzing = FALSE
    /\ request = Null
    /\ notification = NoNotification
    /\ files = 1
    /\ sampleFetches = 0
    /\ SynthIdle
    /\ ViewerReady

NextRender ==
    \/ \E anns \in RenderAnnotationLists, regions \in RenderRegionLists :
           PropsChange(anns, regions)
    \/ ToggleConsensus
    \/ ConsensusEffect
    \/ DrawOverlaysTimer
    \/ \E p \in RenderPoints : CanvasMouseMove(p.x, p.y)
    \/ CanvasMouseLeave
    \/ DrawHeatmapTimer

SpecRender == InitRender /\ [][NextRender]_vars

(***************************************************************************)
(* Properties of consensus detection (SpecDetect).                         *)
(***************************************************************************)
\* C1: once detectConsensus has run, the consensus regions are exactly the
\* pairs (annotation, AI region) whose Euclidean distance is strictly less
\* than the region's radius: every such pair is reported once, a pair at
\* distance = radius is not, and nothing is deduplicated.
C1_ConsensusIffStrictlyInside ==
    ~cvEffectPending =>
        LET inside ==
                {pair \in (1..Len(annotations)) \X (1..Len(heatmapRegions)) :
                    LET a == annotations[pair[1]]
                        r == heatmapRegions[pair[2]]
                    IN /\ r.radius > 0
                       /\ (a.x - r.x) * (a.x - r.x) + (a.y - r.y) * (a.y - r.y)
                              < r.radius * r.radius}
            Reports(k, pair) ==
                /\ cvConsensusRegions[k].clinicianAnnotation = annotations[pair[1]]
                /\ cvConsensusRegions[k].aiRegion = heatmapRegions[pair[2]]
        IN /\ Len(cvConsensusRegions) = Cardinality(inside)
           /\ \A pair \in inside :
                  \E k \in 1..Len(cvConsensusRegions) : Reports(k, pair)
           /\ \A k \in 1..Len(cvConsensusRegions) :
                  \E pair \in inside : Reports(k, pair)
           /\ consensusRegions = cvConsensusRegions

\* Detection has run on two annotations and two regions where one
\* annotation lies in both regions, one region holds both annotations, and
\* one annotation lies exactly on the boundary of a region.
C1_Witness ==
    /\ ~cvEffectPending
    /\ Len(annotations) = 2 /\ Len(heatmapRegions) = 2
    /\ Len(cvConsensusRegions) = 3
    /\ \E i \in 1..2, j \in 1..2 :
           LET a == annotations[i]
               r == heatmapRegions[j]
           IN (a.x - r.x) * (a.x - r.x) + (a.y - r.y) * (a.y - r.y)
                  = r.radius * r.radius
    /\ cvConsensusRegions[1].clinicianAnnotation = cvConsensusRegions[2].clinicianAnnotation
    /\ cvConsensusRegions[2].aiRegion = cvConsensusRegions[3].aiRegion

(***************************************************************************)
(* Properties of the region synthesizer (SpecSynth).                       *)
(***************************************************************************)
\* C2: a score below 0.3 gives zero regions whatever the pathology, and a
\* score of 0.3 or more gives at least one region when the pathology the
\* identifier resolves to (its own catalog entry, else the generic lung
\* opacity entry) has at least one region template.
C2_ThresholdAtMinConfidence ==
    synthOut # Null =>
        LET score == IF synthIn.hasScore THEN synthIn.score ELSE 0
            key == PathologyKey(ResponseModelId(synthIn))
            templates == IF key \in DOMAIN PATHOLOGY_REGIONS
                         THEN PATHOLOGY_REGIONS[key].items
                         ELSE PATHOLOGY_REGIONS[Keys.lung_opacity].items
        IN /\ score < 30 => ~synthOut.threw /\ synthOut.regions = <<>>
           /\ score >= 30 /\ Len(templates) >= 1 =>
                  ~synthOut.threw /\ Len(synthOut.regions) >= 1

\* C3: for a score of 0.3 or more and a pathology with at least one
\* template, the first region is the primary template's, a second region
\* (the secondary template's) is emitted iff the score is strictly above 0.6
\* and a secondary template exists, and there are never more than two.
C3_PrimaryAlwaysSecondaryAboveHigh ==
    synthOut # Null =>
        LET score == IF synthIn.hasScore THEN synthIn.score ELSE 0
            key == PathologyKey(ResponseModelId(synthIn))
            templates == IF key \in DOMAIN PATHOLOGY_REGIONS
                         THEN PATHOLOGY_REGIONS[key].items
                         ELSE PATHOLOGY_REGIONS[Keys.lung_opacity].items
            At(region, template) ==
                /\ region.x = template.x
                /\ region.y = template.y
                /\ region.radius = template.radius
        IN score >= 30 /\ Len(templates) >= 1 =>
               /\ ~synthOut.threw
               /\ Len(synthOut.regions) \in {1, 2}
               /\ At(synthOut.regions[1], templates[1])
               /\ Len(synthOut.regions) = 2 <=> (score > 60 /\ Len(templates) >= 2)
               /\ Len(synthOut.regions) = 2 => At(synthOut.regions[2], templates[2])

C5_NormalHasNoRegions ==
    synthOut # Null /\ PathologyKey(ResponseModelId(synthIn)) = Keys.normal =>
        ~synthOut.threw /\ synthOut.regions = <<>>

\* The synthesizer ran on a "normal" identifier with a score above 0.6.
C5_Witness ==
    /\ synthOut # Null
    /\ synthIn.model_id = ModelIdOf(Keys.normal)
    /\ synthIn.hasScore /\ synthIn.score > 60
    /\ synthOut.regions = <<>>

\* C6: for an identifier whose pathology key is in neither catalog (no
\* pattern match included), the synthesizer never throws and uses the
\* generic lung opacity entry and templates.
C6_UnknownKeyFallsBack ==
    synthOut # Null =>
        LET score == IF synthIn.hasScore THEN synthIn.score ELSE 0
            modelId == ResponseModelId(synthIn)
            key == PathologyKey(modelId)
            generic == PATHOLOGY_REGIONS[Keys.lung_opacity].items
        IN RegexMatch(modelId) = Null
           \/ key \notin (DOMAIN PATHOLOGY_INFO \cup DOMAIN PATHOLOGY_REGIONS) =>
               /\ ~synthOut.threw
               /\ score >= 30 =>
                      /\ Len(synthOut.regions) >= 1
                      /\ synthOut.regions[1].label
                             = PATHOLOGY_INFO[Keys.lung_opacity].fullName
                      /\ synthOut.regions[1].x = generic[1].x
                      /\ synthOut.regions[1].y = generic[1].y
                      /\ synthOut.regions[1].radius = generic[1].radius

C8_FirstRegionInArrayOrder ==
    pointerAt.on = "canvas" =>
        LET hits ==
                {k \in 1..Len(heatmapRegions) :
                    LET r == heatmapRegions[k]
                    IN /\ r.radius > 0
                       /\ (pointerAt.x - r.x) * (pointerAt.x - r.x)
                          + (pointerAt.y - r.y) * (pointerAt.y - r.y)
                              < r.radius * r.radius}
        IN IF hits = {} THEN ovHoveredRegion = Null
           ELSE /\ ovHoveredRegion # Null
                /\ \E k \in hits :
                       /\ \A other \in hits : k <= other
                       /\ ovHoveredRegion = heatmapRegions[k]

\* The cursor is inside two regions, the second smaller and more intense,
\* and the first is picked.
C8_Witness ==
    /\ pointerAt.on = "canvas"
    /\ Len(heatmapRegions) = 2
    /\ \A k \in 1..2 :
           LET r == heatmapRegions[k]
           IN (pointerAt.x - r.x) * (pointerAt.x - r.x)
              + (pointerAt.y - r.y) * (pointerAt.y - r.y) < r.radius * r.radius
    /\ heatmapRegions[2].radius < heatmapRegions[1].radius
    /\ heatmapRegions[2].intensity > heatmapRegions[1].intensity
    /\ ovHoveredRegion = heatmapRegions[1]

\* C9: the hover link works in both directions: while the cursor is on a
\* canvas region the findings-list entry of that region is highlighted, and
\* while the cursor is on a findings-list entry the canvas overlay has that
\* entry's region as its hovered region.
C9_HoverLinkBidirectional ==
    /\ pointerAt.on = "canvas" /\ ovHoveredRegion # Null =>
           FindingHighlighted(ovHoveredRegion.ref)
    /\ pointerAt.on = "finding" =>
           SameRegion(ovHoveredRegion, heatmapRegions[pointerAt.index])

(***************************************************************************)
(* Properties of the annotation markers (SpecAnnot).                       *)
(***************************************************************************)
\* C10: once drawn, the markers are those of the current annotations, in
\* array order and numbered 1..n by array position.
C10_MarkersNumberedByPosition ==
    ~avDrawPending =>
        /\ Len(avCanvas) = Len(annotations)
        /\ \A k \in 1..Len(avCanvas) :
               /\ avCanvas[k].number = k
               /\ avCanvas[k].cx = annotations[k].x * surface.width
               /\ avCanvas[k].cy = annotations[k].y * surface.height

\* C18: an annotation enters the collection only by a click in annotation
\* mode followed by Save: a pending annotation appears only by a click while
\* annotation mode is on, the comment dialog is open only with a pending
\* annotation, the collection grows only by Save appending the pending
\* annotation (with the comment) at the end, closing the dialog in any other
\* way leaves the collection as it is, and any other change is a delete.
C18_AnnotationLifecycle ==
    [][/\ showCommentDialog => pendingAnnotation # Null /\ drawingMode
       /\ pendingAnnotation' # pendingAnnotation /\ pendingAnnotation' # Null =>
              /\ drawingMode /\ ~showCommentDialog /\ showCommentDialog'
              /\ annotations' = annotations
       /\ Len(annotations') > Len(annotations) =>
              /\ showCommentDialog /\ ~showCommentDialog'
              /\ pendingAnnotation' = Null
              /\ annotations' = Append(annotations,
                     [pendingAnnotation EXCEPT !.comment = commentText])
       /\ Len(annotations') <= Len(annotations) /\ annotations' # annotations =>
              /\ ~showCommentDialog
              /\ \E id \in {annotations[k].id : k \in 1..Len(annotations)} :
                     annotations' = SelectSeq(annotations, LAMBDA a : a.id # id)
      ]_vars

\* Two annotations were saved one after the other, the first with a comment.
C18_Witness ==
    /\ Len(annotations) = 2
    /\ annotations[1].comment = "note"
    /\ annotations[1].id < annotations[2].id
    /\ pendingAnnotation = Null
    /\ ~showCommentDialog

\* C19: the annotations of the collection have pairwise distinct ids.
C19_UniqueIds ==
    \A i, j \in 1..Len(annotations) : i # j => annotations[i].id # annotations[j].id

\* C20: once drawn, each annotation of the collection, also one with x or y
\* exactly 0, has exactly one marker, at (x * W, y * H).
C20_OneMarkerPerAnnotation ==
    ~avDrawPending =>
        \A k \in 1..Len(annotations) :
            Cardinality({m \in 1..Len(avCanvas) :
                            /\ avCanvas[m].number = k
                            /\ avCanvas[m].cx = annotations[k].x * surface.width
                            /\ avCanvas[m].cy = annotations[k].y * surface.height}) = 1

\* C30: whenever the comment dialog opens for a newly clicked pending
\* annotation, the comment text is empty.
C30_DialogOpensEmpty ==
    [][~showCommentDialog /\ showCommentDialog' => commentText' = ""]_vars

(***************************************************************************)
(* Properties of the Demo (SpecDemo).                                      *)
(***************************************************************************)
\* C11: whenever no consensus effect is due (the last event has been fully
\* processed), the consensus regions the Demo holds are those detected for
\* its current annotations and AI regions.
C11_ConsensusRecomputed ==
    ~cvEffectPending => consensusRegions = Detected(annotations, heatmapRegions)

\* C13: a response is taken only for the image held now: the AI result
\* held was computed for the current file, and the AI regions are set only
\* from a request that was sent with the current file.
C13_StaleResponseIgnored ==
    [][/\ aiResults' # Null => dicomFile' # Null /\ aiResults'.study_id = dicomFile'
       /\ heatmapRegions' # heatmapRegions /\ heatmapRegions' # <<>> =>
              request # Null /\ request.dicom = dicomFile'
      ]_vars

\* C16: while the last notification is the error of an analysis (the
\* service's error text, "Unknown error" without one, or the connection
\* error), the Demo holds no AI result and no AI regions and isAnalyzing is
\* false.
C16_AnalysisErrorLeavesNoResult ==
    /\ notification.kind = "error" /\ notification.title = "Analysis failed" =>
           /\ notification.description \in (ServiceErrors \ {""}) \cup {"Unknown error"}
           /\ aiResults = Null /\ heatmapRegions = <<>> /\ ~isAnalyzing
    /\ notification = ConnectError =>
           aiResults = Null /\ heatmapRegions = <<>> /\ ~isAnalyzing

\* C17: every change of the image and every start of an analysis empties
\* the AI region list; the list becomes non-empty only when a request
\* settles, from the empty list; and every response with success true sets
\* the list to exactly the regions synthesized from that response.
C17_RegionsReplacedWholesale ==
    [][/\ dicomFile' # dicomFile \/ dicomImageId' # dicomImageId =>
              heatmapRegions' = <<>>
       /\ request = Null /\ request' # Null => heatmapRegions' = <<>>
       /\ heatmapRegions' # heatmapRegions /\ heatmapRegions' # <<>> =>
              /\ request # Null /\ request' = Null
              /\ heatmapRegions = <<>>
       /\ request # Null /\ request' = Null /\ aiResults' # Null =>
              /\ ~generateRegionsFromAIResponse(aiResults').threw
              /\ heatmapRegions' =
                     WithRefs(generateRegionsFromAIResponse(aiResults').regions)
      ]_vars

\* C26: the AI region list is empty whenever no AI result is held.
C26_NoRegionsWithoutResult ==
    aiResults = Null => heatmapRegions = <<>>

\* C25: every started analysis eventually leaves the analyzing state,
\* whatever the outcome of its request; isAnalyzing is true exactly while a
\* request is in flight, and while it is true no second request is started.
C25_AnalyzingEnds ==
    /\ [](isAnalyzing <=> request # Null)
    /\ [][isAnalyzing => request' \in {request, Null}]_vars
    /\ (isAnalyzing ~> ~isAnalyzing)

\* An analysis was started and its request threw: the catch block has run
\* and the Demo is no longer analyzing.
C25_Witness ==
    /\ ~isAnalyzing
    /\ request = Null
    /\ notification = ConnectError
    /\ aiResults = Null

\* C27: in the consensus summary shown in the combined tab for the
\* current detection result, the number of additional AI findings is the
\* number of AI regions that hold no annotation, and the number of
\* unmatched clinician annotations is the number of annotations that lie in
\* no AI region.
C27_SummaryCounts ==
    /\ CombinedMounted(viewMode, dicomImageId)
    /\ ~cvEffectPending
    /\ consensusRegions = Detected(annotations, heatmapRegions)
    /\ SummaryShown(showConsensus, consensusRegions)
    =>
        /\ AdditionalFindings(heatmapRegions, consensusRegions) =
               Cardinality({j \in 1..Len(heatmapRegions) :
                   ~\E i \in 1..Len(annotations) :
                       WithinRegion(annotations[i].x, annotations[i].y,
                                    heatmapRegions[j])})
        /\ UnmatchedAnnotations(annotations, consensusRegions) =
               Cardinality({i \in 1..Len(annotations) :
                   ~\E j \in 1..Len(heatmapRegions) :
                       WithinRegion(annotations[i].x, annotations[i].y,
                                    heatmapRegions[j])})

(***************************************************************************)
(* Properties of a viewer's image loading (SpecViewer).                    *)
(***************************************************************************)
\* C12: when a load settles that was started for an image other than the
\* viewer's current one, it is ignored: the image displayed in the viewer's
\* element and the viewer's loading, error and imageLoaded do not change.
C12_StaleLoadIgnored ==
    [][\A load \in vwPending \ vwPending' :
           /\ vwMounted /\ load.element = vwElement
           /\ vwImageId # NoImageId /\ load.imageId # vwImageId
           =>
               UNCHANGED <<vwLoading, vwError, vwImageLoaded, displayedImage>>]_vars

\* C14: the rendering context is acquired and released in a scoped way: an
\* element never holds more than one enabled entry, the mounted viewer's
\* element holds one exactly when the last effect run enabled it, and no
\* element is enabled while the viewer is unmounted, whatever the loads did.
C14_ScopedEnableDisable ==
    \A e \in DOMAIN enabledElements :
        /\ enabledElements[e] <= 1
        /\ enabledElements[e] = 1 <=> (vwMounted /\ e = vwElement /\ vwCleanup)

\* The viewer was mounted, changed its image, saw a load fail and was
\* unmounted, and nothing is enabled.
C14_Witness ==
    /\ ~vwMounted
    /\ vwRuns >= 2
    /\ vwError = LoadError
    /\ \A e \in DOMAIN enabledElements : enabledElements[e] = 0

\* C15: a mounted viewer that shows an error shows one of the two messages,
\* is not loading and is not ready (the overlay canvas is hidden), and has
\* no load of its current effect run in flight.
C15_ErrorStateNotReady ==
    vwMounted /\ vwError # NoError =>
        /\ vwError \in {InitError, LoadError}
        /\ ~vwLoading
        /\ ~vwImageLoaded
        /\ ~\E load \in vwPending : load.element = vwElement /\ load.run = vwRuns

\* C24: a mounted viewer is in at most one of the states loading, error and
\* ready: it is never ready (imageLoaded) while loading, never ready while
\* an error is set, and never loading while an error is set.
C24_OneOfLoadingErrorReady ==
    vwMounted =>
        /\ ~(vwImageLoaded /\ vwLoading)
        /\ ~(vwImageLoaded /\ vwError # NoError)
        /\ ~(vwLoading /\ vwError # NoError)

(***************************************************************************)
(* Properties of drawing (SpecRender).                                     *)
(***************************************************************************)
\* C21: each draw clears the canvas first: whatever was on the canvas, after
\* a draw of the combined viewer the canvas holds exactly the shapes of its
\* inputs, and after a draw of the overlay viewer exactly the shapes of the
\* inputs its timer was started with; with no annotations, no AI regions
\* and showConsensus false the combined canvas is empty after the draw.
C21_DrawIsIdempotent ==
    [][/\ cvDrawPending /\ ~cvDrawPending' =>
              /\ cvCanvas' =
                     DrawOverlays(IF cvDefaults THEN <<>> ELSE heatmapRegions,
                                  cvConsensusRegions,
                                  IF cvDefaults THEN <<>> ELSE annotations,
                                  showConsensus, surface)
              /\ annotations = <<>> /\ heatmapRegions = <<>> /\ ~showConsensus =>
                     cvCanvas' = <<>>
       /\ ovTimer # Null /\ ovTimer' = Null =>
              ovCanvas' = DrawHeatmap(ovTimer.regions, ovTimer.hoveredRegion, surface)
      ]_vars

\* Both canvases have been drawn again over an earlier drawing: the
\* combined canvas shows halos (showConsensus was switched on after the
\* first draw was due) and the overlay canvas shows its regions.
C21_Witness ==
    /\ ~cvDrawPending /\ ~cvEffectPending
    /\ showConsensus
    /\ Len(cvConsensusRegions) > 0
    /\ cvCanvas = DrawOverlays(heatmapRegions, cvConsensusRegions, annotations,
                               showConsensus, surface)
    /\ \E k \in 1..Len(cvCanvas) : cvCanvas[k].layer = "consensus"
    /\ ovTimer = Null
    /\ Len(ovCanvas) > 0

\* C22: once the surface is ready and no effect or draw timer is due, each
\* overlay shows exactly its current inputs: the combined canvas its AI
\* regions, consensus regions, annotations and showConsensus, and the
\* overlay viewer's canvas its regions and its hovered region.
C22_RedrawOnEveryChange ==
    vwImageLoaded =>
        /\ ~cvEffectPending /\ ~cvDrawPending =>
               cvCanvas = DrawOverlays(heatmapRegions, cvConsensusRegions,
                                       annotations, showConsensus, surface)
        /\ ovTimer = Null =>
               ovCanvas = DrawHeatmap(heatmapRegions, ovHoveredRegion, surface)

\* C23: every draw of the combined overlay paints the AI regions, then the
\* consensus halos, then the clinician markers; with showConsensus false it
\* paints no halo, and with showConsensus true one halo per consensus region.
C23_LayerOrderAndHalos ==
    [][cvDrawPending /\ ~cvDrawPending' =>
           /\ \A i, j \in 1..Len(cvCanvas') :
                  i < j =>
                      /\ cvCanvas'[j].layer = "ai" => cvCanvas'[i].layer = "ai"
                      /\ cvCanvas'[i].layer = "marker" => cvCanvas'[j].layer = "marker"
           /\ Cardinality({k \in 1..Len(cvCanvas') : cvCanvas'[k].layer = "consensus"})
                  = IF showConsensus THEN Len(cvConsensusRegions) ELSE 0
      ]_vars

\* A draw has painted all three layers.
C23_Witness ==
    /\ ~cvDrawPending
    /\ \E i, j, k \in 1..Len(cvCanvas) :
           /\ i < j /\ j < k
           /\ cvCanvas[i].layer = "ai"
           /\ cvCanvas[j].layer = "consensus"
           /\ cvCanvas[k].layer = "marker"

\* C28: on the drawn combined canvas, the centre of marker i lies inside the
\* drawn circle of AI region j exactly when annotation i is in consensus
\* with region j.
C28_VisualContainmentIsConsensus ==
    /\ vwImageLoaded /\ ~cvDefaults
    /\ ~cvEffectPending /\ ~cvDrawPending
    /\ cvCanvas = DrawOverlays(heatmapRegions, cvConsensusRegions, annotations,
                               showConsensus, surface)
    =>
        \A i \in 1..Len(annotations), j \in 1..Len(heatmapRegions) :
            LET circle == cvCanvas[j]
                marker == CHOOSE m \in {cvCanvas[k] : k \in 1..Len(cvCanvas)} :
                              m.layer = "marker" /\ m.number = i
                dx == marker.cx - circle.cx
                dy == marker.cy - circle.cy
            IN (dx * dx + dy * dy < circle.r * circle.r)
               <=> \E k \in 1..Len(cvConsensusRegions) :
                       /\ cvConsensusRegions[k].clinicianAnnotation = annotations[i]
                       /\ cvConsensusRegions[k].aiRegion = heatmapRegions[j]

\* C29: for one set of inputs the consensus effect runs once and is then not
\* due again, whether the arrays are passed or defaulted.
C29_ConsensusEffectQuiesces ==
    /\ cvRuns <= 1
    /\ cvRuns = 1 => ~cvEffectPending

=============================================================================
